---------------------------- MODULE Spec2Model ----------------------------
(***************************************************************************)
(* State-machine model of the SpectralMorph formant morpher:                *)
(*   dsp::SpectralProcessor  (Source/DSP/SpectralProcessor.cpp, 2nd         *)
(*                            revision in the file, lines 171-482)          *)
(*   dsp::FormantWarper      (Source/DSP/FormantWarper.h)                   *)
(*   the plugin shell        (Source/PluginProcessor.cpp, PluginEditor.cpp) *)
(*                                                                          *)
(* Audio samples are uninterpreted symbols.  The g-th sample the host has   *)
(* delivered is the positive integer g; the float 0.0f a ring is filled     *)
(* with is the empty sum.  A slot of the overlap-add accumulator is a       *)
(* symbolic sum: the set of the synthesized frame samples <<seq, k>> (k-th  *)
(* sample of the seq-th frame) that were added into it.                     *)
(***************************************************************************)
EXTENDS Integers, Sequences, FiniteSets, TLC

(***************************************************************************)
(* Sizes.  The program uses fftOrder = 10 and numFormants = 15; the model   *)
(* is scaled down and keeps the derived relations of the source.            *)
(***************************************************************************)
fftOrder == 3

numFormants == 3

fftSize == 2 ^ fftOrder

hopSize == fftSize \div 4

numBins == fftSize \div 2 + 1

\* total number of samples the host delivers in one run of the model
MaxSamples == 10

\* largest numSamples of one process() call
MaxBlock == 3

MaxChannels == 2

MinFormantHz == 200

MinSeparationHz == 20

Default15 ==
  << 500, 1500, 2500, 3200, 3800, 4400, 5000, 5600, 6200, 6800,
     7400, 8000, 8600, 9200, 9800 >>

\* the member initialiser of targetFormantsHz, cut to the modelled length
DefaultFormantsHz == [i \in 1..numFormants |-> Default15[i]]

SampleRates == {44100, 48000}

\* Hz values a caller may put into a target vector
HzValues == {90, 100, 200, 210, 230, 1500}

AllTargetVectors == [1..numFormants -> HzValues]

\* the target vectors the parameter source hands over while audio is streaming
StreamTargetVectors == {[i \in 1..numFormants |-> 100 - 10 * (i - 1)], DefaultFormantsHz}

VARIABLES
  currentSampleRate,   \* double currentSampleRate
  prepared,            \* envelopeExtractor has been prepared (its fftSize # 0)
  inputFifo,           \* input ring, indexed 0..fftSize-1
  outputAccumulator,   \* output ring, indexed 0..fftSize-1
  hopCounter,
  inputWritePos,
  outputReadPos,
  targetFormantsHz,
  visSpectrum,         \* snapshot fields: the frame (seq) that wrote each, 0 initially
  visEnvelope,
  visF1,
  visF2,
  visualizationLock,   \* "none" | "audio" | "ui"
  audioPc,             \* position of the audio thread
  blockLeft,           \* samples of the current process() call not yet consumed
  frame,               \* the local std::vector<float> frame of process()
  curDropped,          \* the latest try-lock of the publish step failed
  uiPc,                \* position of the UI (message) thread
  uiSnap,              \* what getLatestVisualizationData handed to its caller
  inLog,               \* history: input samples consumed since the last reset
  outLog,              \* history: output samples emitted since the last reset
  frameLog,            \* history: frames triggered since the last reset
  total,               \* history: samples delivered since construction
  frameSeq,            \* history: frames triggered since construction
  fault,               \* the process has crashed
  allocCount,          \* history: heap allocations made inside process() while prepared
  lastArg,             \* history: argument of the last setTargetFormantsHz call
  warpMap,             \* FormantWarper::warpMap, indexed 0..size-1; << >> when empty
  warpNumBins,         \* history: numBins of the last calculateWarpMap call
  warpPoints,          \* history: points of the last calculateWarpMap call
  currentFormantBins,  \* the formant bins detectFormants wrote, indexed 1..numFormants
  detEnvelope,         \* the envelope handed to detectFormants, indexed 0..size-1
  detSampleRate,       \* the sample rate handed to detectFormants
  warpedEnvelope,      \* the warped envelope of the last frame, indexed 0..size-1
  estimatedHz,         \* what the last estimateFormantsFromBuffer call returned
  estFrame,            \* the frame it analysed: the source index copied to each place, -1 for 0.0f
  estRead,             \* the indices of the source buffer it read
  blockInput,          \* history: the block handed to process(), channel -> samples
  buffer,              \* the block process() works on in place, channel -> samples
  blockTargets,        \* history: targetFormantsHz when the host's block began
  uiPaced,             \* the editor's timer starts no read while an update is pending
  sampleClass,         \* magnitude classes of the samples of a frame, 1..fftSize
  envelopeClass,       \* classes of the envelope the extractor produced, 1..numBins
  outputClass,         \* classes of the samples processBlock left in the frame
  shiftFactor,         \* the factor of the last single-factor warp call
  directNumBins,       \* its number of bins
  directMap,           \* the map the direct linear scaling left for them
  uiSetPc,             \* the UI thread inside setTargetFormantsHz: 0 outside, 1..n copying, n+1..2n raising
  uiSetArg,            \* the vector it was called with
  audioSetPc,          \* the audio thread the same, and 2n+1..3n reading the targets for a frame's nodes
  audioSetArg,         \* the vector it called setTargetFormantsHz with
  nodeTargets,         \* the targets read so far for the nodes of the frame
  rotFifo,             \* the input FIFO of the rotating implementation, slot 0 oldest
  rotAccumulator,      \* its overlap-add accumulator, slot 0 next to be emitted
  rotHopCounter,       \* its hop counter
  rotOutLog,           \* the output samples it emitted since the last reset
  rotFrameLog          \* the frames it analysed since the last reset

vars ==
  << currentSampleRate, prepared, inputFifo, outputAccumulator, hopCounter,
     inputWritePos, outputReadPos, targetFormantsHz, visSpectrum, visEnvelope,
     visF1, visF2, visualizationLock, audioPc, blockLeft, frame, curDropped,
     uiPc, uiSnap, inLog, outLog, frameLog, total, frameSeq, fault,
     allocCount, lastArg, warpMap, warpNumBins, warpPoints, currentFormantBins,
     detEnvelope, detSampleRate, warpedEnvelope, estimatedHz, estFrame, estRead,
     blockInput, buffer,
     blockTargets, uiPaced, sampleClass, envelopeClass, outputClass,
     shiftFactor, directNumBins, directMap,
     uiSetPc, uiSetArg, audioSetPc, audioSetArg, nodeTargets,
     rotFifo, rotAccumulator, rotHopCounter, rotOutLog, rotFrameLog >>

warpVars == << warpMap, warpNumBins, warpPoints >>

detVars ==
  << currentFormantBins, detEnvelope, detSampleRate, warpedEnvelope, estimatedHz,
     estFrame, estRead >>

hostVars == << blockInput, buffer, blockTargets, uiPaced >>

\* the state of the studies of single functions
auxVars ==
  << sampleClass, envelopeClass, outputClass, shiftFactor, directNumBins, directMap >>

\* the two threads inside setTargetFormantsHz and the node construction
raceVars == << uiSetPc, uiSetArg, audioSetPc, audioSetArg, nodeTargets >>

\* the state of the earlier implementation of process(), with rotating buffers
rotVars == << rotFifo, rotAccumulator, rotHopCounter, rotOutLog, rotFrameLog >>

ringVars == << inputFifo, outputAccumulator, hopCounter, inputWritePos, outputReadPos >>

visVars == << visSpectrum, visEnvelope, visF1, visF2 >>

histVars == << inLog, outLog, frameLog >>

Max(a, b) == IF a >= b THEN a ELSE b

Min(a, b) == IF a <= b THEN a ELSE b

Slots == 0 .. fftSize - 1

ZeroRing == [p \in Slots |-> 0]

ZeroAccumulator == [p \in Slots |-> {}]

(***************************************************************************)
(* setTargetFormantsHz: copy, then one left-to-right pass that raises every *)
(* element to its floor.                                                    *)
(***************************************************************************)
MinHzNoSeparation(i, prev) == IF i = 1 THEN MinFormantHz ELSE prev

MinHz(i, prev) == IF i = 1 THEN MinFormantHz ELSE prev + MinSeparationHz

RECURSIVE MonotonizeFrom(_, _)
MonotonizeFrom(t, i) ==
  IF i > Len(t) THEN t
  ELSE LET prev == IF i = 1 THEN 0 ELSE t[i - 1]
           t2   == [t EXCEPT ![i] = Max(MinHz(i, prev), t[i])]
       IN  MonotonizeFrom(t2, i + 1)

\* an update that is refused when the vector breaks a floor
MonotonizeOrReject(targetHz) ==
  IF targetHz[1] >= MinFormantHz
     /\ \A i \in 2..Len(targetHz) : targetHz[i] >= targetHz[i - 1] + MinSeparationHz
  THEN targetHz
  ELSE targetFormantsHz

Monotonize(targetHz) == MonotonizeFrom(targetHz, 1)

\* the processor and the warper as constructed
Constructed ==
  /\ inputFifo = ZeroRing
  /\ outputAccumulator = ZeroAccumulator
  /\ hopCounter = 0
  /\ inputWritePos = 0
  /\ outputReadPos = 0
  /\ targetFormantsHz = DefaultFormantsHz
  /\ visSpectrum = 0
  /\ visEnvelope = 0
  /\ visF1 = 0
  /\ visF2 = 0
  /\ visualizationLock = "none"
  /\ audioPc = "idle"
  /\ blockLeft = 0
  /\ frame = << >>
  /\ curDropped = FALSE
  /\ uiPc = "idle"
  /\ uiSnap = [spectrum |-> 0, envelope |-> 0, f1 |-> 0, f2 |-> 0]
  /\ inLog = << >>
  /\ outLog = << >>
  /\ frameLog = << >>
  /\ total = 0
  /\ frameSeq = 0
  /\ fault = FALSE
  /\ allocCount = 0
  /\ lastArg = << >>
  /\ warpMap = << >>
  /\ warpNumBins = 0
  /\ warpPoints = << >>
  /\ currentFormantBins = [i \in 1..numFormants |-> 0]
  /\ warpedEnvelope = << >>
  /\ estimatedHz = << >>
  /\ estFrame = << >>
  /\ estRead = {}
  /\ blockInput = << >>
  /\ buffer = << >>
  /\ blockTargets = << >>
  /\ envelopeClass = << >>
  /\ outputClass = << >>
  /\ shiftFactor = << >>
  /\ directNumBins = 0
  /\ directMap = << >>
  /\ uiSetPc = 0
  /\ uiSetArg = << >>
  /\ audioSetPc = 0
  /\ audioSetArg = << >>
  /\ nodeTargets = << >>
  /\ rotFifo = ZeroRing
  /\ rotAccumulator = ZeroAccumulator
  /\ rotHopCounter = 0
  /\ rotOutLog = << >>
  /\ rotFrameLog = << >>

Init ==
  /\ Constructed
  /\ uiPaced = FALSE
  /\ sampleClass = << >>
  /\ currentSampleRate = 44100
  /\ prepared = FALSE
  /\ detEnvelope = << >>
  /\ detSampleRate = 0

SetTargetFormantsHz(targetHz) ==
  /\ audioPc = "idle"
  /\ ~fault
  /\ targetFormantsHz' = Monotonize(targetHz)
  /\ lastArg' = targetHz
  /\ UNCHANGED << auxVars, raceVars, rotVars, warpVars, detVars, hostVars, currentSampleRate, prepared, ringVars, visVars, visualizationLock,
                  audioPc, blockLeft, frame, curDropped, uiPc, uiSnap, histVars,
                  total, frameSeq, fault, allocCount >>

(***************************************************************************)
(* The target-vector contract on its own: any caller, any vector.           *)
(***************************************************************************)
TargetsCall == \E v \in AllTargetVectors : SetTargetFormantsHz(v)

NextTargets == TargetsCall

SpecTargets == Init /\ [][NextTargets]_vars

(***************************************************************************)
(* prepare / reset                                                          *)
(***************************************************************************)
\* reset() of the first revision of the file: the ring positions are left alone
ResetKeepsPositions ==
  /\ inputFifo' = ZeroRing
  /\ outputAccumulator' = ZeroAccumulator
  /\ hopCounter' = 0
  /\ UNCHANGED << inputWritePos, outputReadPos >>
  /\ inLog' = << >>
  /\ outLog' = << >>
  /\ frameLog' = << >>

\* a reset() that leaves the overlap-add accumulator as it is
ResetKeepsAccumulator ==
  /\ inputFifo' = ZeroRing
  /\ UNCHANGED outputAccumulator
  /\ hopCounter' = 0
  /\ inputWritePos' = 0
  /\ outputReadPos' = 0
  /\ inLog' = << >>
  /\ outLog' = << >>
  /\ frameLog' = << >>

\* the body of reset(): what it writes
ResetBody ==
  /\ inputFifo' = ZeroRing
  /\ outputAccumulator' = ZeroAccumulator
  /\ hopCounter' = 0
  /\ inputWritePos' = 0
  /\ outputReadPos' = 0
  /\ inLog' = << >>
  /\ outLog' = << >>
  /\ frameLog' = << >>

\* reset() of the ring-buffer implementation
RingReset ==
  /\ audioPc = "idle"
  /\ ~fault
  /\ ResetBody
  /\ UNCHANGED << auxVars, raceVars, warpVars, detVars, hostVars, currentSampleRate, prepared, targetFormantsHz, visVars,
                  visualizationLock, audioPc, blockLeft, frame, curDropped, uiPc,
                  uiSnap, total, frameSeq, fault, allocCount, lastArg >>

Reset == RingReset /\ UNCHANGED rotVars

\* a prepare() that stores the rate and prepares the extractor, without reset()
PrepareWithoutReset(sampleRate) ==
  /\ audioPc = "idle"
  /\ ~fault
  /\ currentSampleRate' = sampleRate
  /\ prepared' = TRUE
  /\ UNCHANGED << ringVars, histVars >>
  /\ UNCHANGED << auxVars, raceVars, rotVars, warpVars, detVars, hostVars, targetFormantsHz, visVars, visualizationLock,
                  audioPc, blockLeft, frame, curDropped, uiPc, uiSnap, total, frameSeq,
                  fault, allocCount, lastArg >>

Prepare(sampleRate) ==
  /\ audioPc = "idle"
  /\ ~fault
  /\ currentSampleRate' = sampleRate
  /\ prepared' = TRUE
  /\ ResetBody
  /\ UNCHANGED << auxVars, raceVars, rotVars, warpVars, detVars, hostVars, targetFormantsHz, visVars, visualizationLock, audioPc,
                  blockLeft,
                  frame, curDropped, uiPc, uiSnap, total, frameSeq, fault,
                  allocCount, lastArg >>

(***************************************************************************)
(* process(): the per-sample loop                                           *)
(***************************************************************************)
\* the samples the caller hands in: those of channel 0 are numbered on from
\* the samples delivered so far, those of the other channels are negative
InputBlock(numSamples, numChannels) ==
  [ch \in 0..(numChannels - 1) |->
     [i \in 1..numSamples |->
        IF ch = 0 THEN total + i ELSE 0 - (ch * MaxSamples + total + i)]]

\* the block seen as the output block it also is (ProcessContextReplacing)
InPlaceBlock(block) ==
  [ch \in DOMAIN block |-> [i \in DOMAIN block[ch] |-> {<< 0, block[ch][i] >>}]]

\* a loop that reads the last channel of the block
InputSampleOfLastChannel(block, i) ==
  LET last == CHOOSE ch \in DOMAIN block : \A other \in DOMAIN block : other <= ch
  IN  block[last][i]

\* src[i], src = inputBlock.getChannelPointer(0)
InputSample(block, i) == block[0][i]

\* std::copy(dst, dst + numSamples, chDst) for every channel from 1 on
CopyToChannels(block) == [ch \in DOMAIN block |-> block[0]]

ProcessBegin(numSamples, numChannels) ==
  /\ audioPc = "idle"
  /\ ~fault
  /\ total + numSamples <= MaxSamples
  /\ audioPc' = "loop"
  /\ blockLeft' = numSamples
  /\ blockInput' = InputBlock(numSamples, numChannels)
  /\ buffer' = InPlaceBlock(InputBlock(numSamples, numChannels))
  /\ UNCHANGED << blockTargets, uiPaced >>
  /\ UNCHANGED << auxVars, raceVars, rotVars, warpVars, detVars, currentSampleRate, prepared, ringVars, targetFormantsHz, visVars,
                  visualizationLock, frame, curDropped, uiPc, uiSnap, histVars,
                  total, frameSeq, fault, allocCount, lastArg >>

\* a frame read from slot 0 on, as from a buffer that is not circular
AssembleFromSlotZero(fifo, writePos) ==
  [k \in 1..fftSize |-> fifo[k - 1]]

\* frame[k] = inputFifo[(inputWritePos + k) % fftSize], k = 0..fftSize-1
AssembleFrame(fifo, writePos) ==
  [k \in 1..fftSize |-> fifo[(writePos + (k - 1)) % fftSize]]

\* the k-th sample (k = 0..fftSize-1) processBlock leaves in data for frame seq
SynthSample(seq, k) == << seq, k >>

\* overlap-add with the indexing of the rotating accumulator: slot k, not readPos + k
OverlapAddFromSlotZero(acc, readPos, seq) ==
  [p \in Slots |-> acc[p] \cup {SynthSample(seq, p)}]

\* outputAccumulator[(outputReadPos + k) % fftSize] += frame[k], k = 0..fftSize-1
OverlapAdd(acc, readPos, seq) ==
  [p \in Slots |-> acc[p] \cup {SynthSample(seq, (p - readPos) % fftSize)}]

\* a sample loop that runs the frame of a hop before it reads the output slot
AudioSampleFrameFirst ==
  /\ audioPc = "loop"
  /\ blockLeft > 0
  /\ LET i        == Len(blockInput[0]) - blockLeft + 1
         x        == InputSample(blockInput, i)
         fifo2    == [inputFifo EXCEPT ![inputWritePos] = x]
         wpos2    == (inputWritePos + 1) % fftSize
         hop2     == hopCounter + 1
         acc2     == IF hop2 >= hopSize
                     THEN OverlapAdd(outputAccumulator, outputReadPos, frameSeq + 1)
                     ELSE outputAccumulator
     IN  /\ inputFifo' = fifo2
         /\ inputWritePos' = wpos2
         /\ outputAccumulator' = [acc2 EXCEPT ![outputReadPos] = {}]
         /\ outputReadPos' = (outputReadPos + 1) % fftSize
         /\ inLog' = Append(inLog, x)
         /\ outLog' = Append(outLog, acc2[outputReadPos])
         /\ buffer' = [buffer EXCEPT ![0][i] = acc2[outputReadPos]]
         /\ total' = total + 1
         /\ blockLeft' = blockLeft - 1
         /\ hopCounter' = IF hop2 >= hopSize THEN 0 ELSE hop2
         /\ frameSeq' = IF hop2 >= hopSize THEN frameSeq + 1 ELSE frameSeq
         /\ frameLog' = IF hop2 >= hopSize
                        THEN Append(frameLog,
                               [T |-> Len(inLog) + 1, seq |-> frameSeq + 1,
                                data |-> AssembleFrame(fifo2, wpos2)])
                        ELSE frameLog
  /\ UNCHANGED << blockInput, blockTargets, uiPaced >>
  /\ UNCHANGED << auxVars, raceVars, rotVars, warpVars, detVars, currentSampleRate, prepared, targetFormantsHz, visVars,
                  visualizationLock, audioPc, frame, curDropped, uiPc, uiSnap,
                  fault, allocCount, lastArg >>

\* a hop test that fires one sample late
HopElapsedLate(hop) == hop > hopSize

\* if (hopCounter >= hopSize), on the incremented counter
HopElapsed(hop) == hop >= hopSize

\* one iteration of the sample loop of the ring-buffer implementation, up to
\* the call of processBlock
RingSample ==
  /\ audioPc = "loop"
  /\ blockLeft > 0
  /\ LET i        == Len(blockInput[0]) - blockLeft + 1
         x        == InputSample(blockInput, i)
         fifo2    == [inputFifo EXCEPT ![inputWritePos] = x]
         wpos2    == (inputWritePos + 1) % fftSize
         emitted  == outputAccumulator[outputReadPos]
         hop2     == hopCounter + 1
     IN  /\ inputFifo' = fifo2
         /\ inputWritePos' = wpos2
         /\ outputAccumulator' = [outputAccumulator EXCEPT ![outputReadPos] = {}]
         /\ outputReadPos' = (outputReadPos + 1) % fftSize
         /\ inLog' = Append(inLog, x)
         /\ outLog' = Append(outLog, emitted)
         /\ buffer' = [buffer EXCEPT ![0][i] = emitted]
         /\ total' = total + 1
         /\ blockLeft' = blockLeft - 1
         /\ IF HopElapsed(hop2)
            THEN /\ hopCounter' = 0
                 /\ frame' = AssembleFrame(fifo2, wpos2)
                 /\ frameSeq' = frameSeq + 1
                 /\ frameLog' = Append(frameLog,
                                  [T |-> Len(inLog) + 1, seq |-> frameSeq + 1,
                                   data |-> AssembleFrame(fifo2, wpos2)])
                 /\ allocCount' = IF prepared THEN allocCount + 1 ELSE allocCount
                 /\ audioPc' = "analysis"
            ELSE /\ hopCounter' = hop2
                 /\ UNCHANGED << frame, frameSeq, frameLog, allocCount, audioPc >>
  /\ UNCHANGED << blockInput, blockTargets, uiPaced >>
  /\ UNCHANGED << auxVars, raceVars, warpVars, detVars, currentSampleRate, prepared, targetFormantsHz, visVars,
                  visualizationLock, curDropped, uiPc, uiSnap, fault, lastArg >>

AudioSample == RingSample /\ UNCHANGED rotVars

ProcessEnd ==
  /\ audioPc = "loop"
  /\ blockLeft = 0
  /\ audioPc' = "idle"
  /\ buffer' = CopyToChannels(buffer)
  /\ UNCHANGED << blockInput, blockTargets, uiPaced >>
  /\ UNCHANGED << auxVars, raceVars, rotVars, warpVars, detVars, currentSampleRate, prepared, ringVars, targetFormantsHz, visVars,
                  visualizationLock, blockLeft, frame, curDropped, uiPc, uiSnap,
                  histVars, total, frameSeq, fault, allocCount, lastArg >>

(***************************************************************************)
(* processBlock(): analysis, snapshot publish, resynthesis                  *)
(***************************************************************************)
\* heap allocations of the analysis half of processBlock: the candidates and
\* selected vectors of detectFormants, the points vector, and the by-value
\* copy of points made by the call of calculateWarpMap
AnalysisAllocations == 4

\* window, FFT, magnitude, envelope, formant detection, warp nodes, warp.
\* With the extractor unprepared its buffer is empty and its FFT pointer null:
\* the access is undefined, the run crashes or goes on with whatever it read.
AudioAnalysis ==
  /\ audioPc = "analysis"
  /\ IF prepared
     THEN /\ allocCount' = allocCount + AnalysisAllocations
          /\ audioPc' = "publish"
          /\ UNCHANGED fault
     ELSE /\ UNCHANGED allocCount
          /\ \E crash \in BOOLEAN :
               /\ fault' = crash
               /\ audioPc' = IF crash THEN "crashed" ELSE "publish"
  /\ UNCHANGED << auxVars, raceVars, rotVars, warpVars, detVars, hostVars, currentSampleRate, prepared, ringVars, targetFormantsHz, visVars,
                  visualizationLock, blockLeft, frame, curDropped, uiPc, uiSnap,
                  histVars, total, frameSeq, lastArg >>

\* the first revision's publish: const juce::ScopedLock lock(visualizationLock)
AudioEnterBlocking ==
  /\ audioPc = "publish"
  /\ visualizationLock = "none"
  /\ visualizationLock' = "audio"
  /\ audioPc' = "pubSpectrum"
  /\ curDropped' = FALSE
  /\ UNCHANGED << auxVars, raceVars, rotVars, warpVars, detVars, hostVars, currentSampleRate, prepared, ringVars, targetFormantsHz, visVars,
                  blockLeft, frame, uiPc, uiSnap, histVars, total, frameSeq, fault,
                  allocCount, lastArg >>

\* if (visualizationLock.tryEnter()) ... : never waits
AudioTryEnter ==
  /\ audioPc = "publish"
  /\ IF visualizationLock = "none"
     THEN /\ visualizationLock' = "audio"
          /\ audioPc' = "pubSpectrum"
          /\ curDropped' = FALSE
     ELSE /\ UNCHANGED visualizationLock
          /\ audioPc' = "apply"
          /\ curDropped' = TRUE
  /\ UNCHANGED << auxVars, raceVars, rotVars, warpVars, detVars, hostVars, currentSampleRate, prepared, ringVars, targetFormantsHz, visVars,
                  blockLeft, frame, uiPc, uiSnap, histVars, total, frameSeq, fault,
                  allocCount, lastArg >>

AudioPublishField(at, next) ==
  /\ audioPc = at
  /\ audioPc' = next
  /\ visSpectrum' = IF at = "pubSpectrum" THEN frameSeq ELSE visSpectrum
  /\ visEnvelope' = IF at = "pubEnvelope" THEN frameSeq ELSE visEnvelope
  /\ visF1' = IF at = "pubF1" THEN frameSeq ELSE visF1
  /\ visF2' = IF at = "pubF2" THEN frameSeq ELSE visF2
  /\ UNCHANGED << auxVars, raceVars, rotVars, warpVars, detVars, hostVars, currentSampleRate, prepared, ringVars, targetFormantsHz,
                  visualizationLock, blockLeft, frame, curDropped, uiPc, uiSnap,
                  histVars, total, frameSeq, fault, allocCount, lastArg >>

AudioPublish ==
  \/ AudioPublishField("pubSpectrum", "pubEnvelope")
  \/ AudioPublishField("pubEnvelope", "pubF1")
  \/ AudioPublishField("pubF1", "pubF2")
  \/ AudioPublishField("pubF2", "pubExit")

AudioExit ==
  /\ audioPc = "pubExit"
  /\ visualizationLock' = "none"
  /\ audioPc' = "apply"
  /\ UNCHANGED << auxVars, raceVars, rotVars, warpVars, detVars, hostVars, currentSampleRate, prepared, ringVars, targetFormantsHz, visVars,
                  blockLeft, frame, curDropped, uiPc, uiSnap, histVars, total,
                  frameSeq, fault, allocCount, lastArg >>

\* envelope substitution, inverse FFT, normalisation, synthesis window, the
\* copy back into data, and (back in process) the overlap-add of the frame
AudioSynthesis ==
  /\ audioPc = "apply"
  /\ outputAccumulator' = OverlapAdd(outputAccumulator, outputReadPos, frameSeq)
  /\ frame' = << >>
  /\ audioPc' = "loop"
  /\ UNCHANGED << auxVars, raceVars, rotVars, warpVars, detVars, hostVars, currentSampleRate, prepared, inputFifo, hopCounter, inputWritePos,
                  outputReadPos, targetFormantsHz, visVars, visualizationLock,
                  blockLeft, curDropped, uiPc, uiSnap, histVars, total, frameSeq,
                  fault, allocCount, lastArg >>

(***************************************************************************)
(* The UI thread: getLatestVisualizationData and the offline estimate       *)
(***************************************************************************)
\* a reader that copies the snapshot without taking the lock
UiEnterWithoutLock ==
  /\ uiPc = "idle"
  /\ ~fault
  /\ uiPc' = "rdSpectrum"
  /\ UNCHANGED << auxVars, raceVars, rotVars, warpVars, detVars, hostVars, currentSampleRate, prepared, ringVars, targetFormantsHz, visVars,
                  visualizationLock, audioPc, blockLeft, frame, curDropped, uiSnap,
                  histVars, total, frameSeq, fault, allocCount, lastArg >>

\* const juce::ScopedLock lock(visualizationLock): waits until the lock is free
UiEnter ==
  /\ uiPc = "idle"
  /\ ~fault
  /\ visualizationLock = "none"
  /\ visualizationLock' = "ui"
  /\ uiPc' = "rdSpectrum"
  /\ UNCHANGED << auxVars, raceVars, rotVars, warpVars, detVars, hostVars, currentSampleRate, prepared, ringVars, targetFormantsHz, visVars,
                  audioPc, blockLeft, frame, curDropped, uiSnap, histVars, total,
                  frameSeq, fault, allocCount, lastArg >>

UiReadField(at, next) ==
  /\ uiPc = at
  /\ ~fault
  /\ uiPc' = next
  /\ uiSnap' = CASE at = "rdSpectrum" -> [uiSnap EXCEPT !.spectrum = visSpectrum]
                 [] at = "rdEnvelope" -> [uiSnap EXCEPT !.envelope = visEnvelope]
                 [] at = "rdF1"       -> [uiSnap EXCEPT !.f1 = visF1]
                 [] OTHER             -> [uiSnap EXCEPT !.f2 = visF2]
  /\ UNCHANGED << auxVars, raceVars, rotVars, warpVars, detVars, hostVars, currentSampleRate, prepared, ringVars, targetFormantsHz, visVars,
                  visualizationLock, audioPc, blockLeft, frame, curDropped,
                  histVars, total, frameSeq, fault, allocCount, lastArg >>

UiRead ==
  \/ UiReadField("rdSpectrum", "rdEnvelope")
  \/ UiReadField("rdEnvelope", "rdF1")
  \/ UiReadField("rdF1", "rdF2")
  \/ UiReadField("rdF2", "rdExit")

\* a reader that returns without releasing the lock
UiExitKeepsLock ==
  /\ uiPc = "rdExit"
  /\ ~fault
  /\ uiPc' = "idle"
  /\ UNCHANGED << auxVars, raceVars, rotVars, warpVars, detVars, hostVars, currentSampleRate, prepared, ringVars, targetFormantsHz, visVars,
                  visualizationLock, audioPc, blockLeft, frame, curDropped, uiSnap, histVars, total,
                  frameSeq, fault, allocCount, lastArg >>

UiExit ==
  /\ uiPc = "rdExit"
  /\ ~fault
  /\ visualizationLock' = "none"
  /\ uiPc' = "idle"
  /\ UNCHANGED << auxVars, raceVars, rotVars, warpVars, detVars, hostVars, currentSampleRate, prepared, ringVars, targetFormantsHz, visVars,
                  audioPc, blockLeft, frame, curDropped, uiSnap, histVars, total,
                  frameSeq, fault, allocCount, lastArg >>

\* analyzeSourceFileAndApplyFormants, called from the file chooser's callback:
\* estimateFormantsFromBuffer works on the processor's scratch buffers
UiEstimateBegin ==
  /\ uiPc = "idle"
  /\ ~fault
  /\ uiPc' = "estimate"
  /\ UNCHANGED << auxVars, raceVars, rotVars, warpVars, detVars, hostVars, currentSampleRate, prepared, ringVars, targetFormantsHz, visVars,
                  visualizationLock, audioPc, blockLeft, frame, curDropped, uiSnap,
                  histVars, total, frameSeq, fault, allocCount, lastArg >>

\* what an estimate of a reference file may return
ReferenceEstimates == {[i \in 1..numFormants |-> 500 * i]}

\* the estimate returns and its result is stored with setTargetFormantsHz, on
\* the UI thread (PluginProcessor.cpp line 137)
UiEstimateEnd ==
  /\ uiPc = "estimate"
  /\ ~fault
  /\ uiPc' = "idle"
  /\ \E estimated \in ReferenceEstimates :
       /\ targetFormantsHz' = Monotonize(estimated)
       /\ lastArg' = estimated
  /\ UNCHANGED << auxVars, raceVars, rotVars, warpVars, detVars, hostVars, currentSampleRate, prepared, ringVars, visVars,
                  visualizationLock, audioPc, blockLeft, frame, curDropped, uiSnap,
                  histVars, total, frameSeq, fault, allocCount >>

AudioCall ==
  \/ \E sr \in SampleRates : Prepare(sr)
  \/ Reset
  \/ \E v \in StreamTargetVectors : SetTargetFormantsHz(v)
  \/ \E n \in 0..MaxBlock : ProcessBegin(n, 1)

Next ==
  \/ AudioCall
  \/ AudioSample
  \/ ProcessEnd
  \/ AudioAnalysis
  \/ AudioTryEnter
  \/ AudioPublish
  \/ AudioExit
  \/ AudioSynthesis
  \/ UiEnter
  \/ UiRead
  \/ UiExit
  \/ UiEstimateBegin
  \/ UiEstimateEnd

Spec == Init /\ [][Next]_vars

(***************************************************************************)
(* The plug-in around the processor: prepareToPlay and processBlock on the  *)
(* audio thread, the editor's timer and file chooser on the UI thread.      *)
(***************************************************************************)
\* prepareToPlay: prepare(spec), then the targets of the parameters
PrepareToPlay(sampleRate, parameters) ==
  /\ audioPc = "idle"
  /\ ~fault
  /\ currentSampleRate' = sampleRate
  /\ prepared' = TRUE
  /\ ResetBody
  /\ targetFormantsHz' = Monotonize(parameters)
  /\ lastArg' = parameters
  /\ UNCHANGED << auxVars, raceVars, rotVars, warpVars, detVars, hostVars, visVars, visualizationLock, audioPc,
                  blockLeft, frame, curDropped, uiPc, uiSnap, total, frameSeq, fault,
                  allocCount >>

\* processBlock up to the entry of process(): the targets of the parameters
\* are stored (line 253), then the buffer is handed to process() (line 265)
HostProcessBlock(parameters, numSamples, numChannels) ==
  /\ audioPc = "idle"
  /\ ~fault
  /\ prepared
  /\ total + numSamples <= MaxSamples
  /\ targetFormantsHz' = Monotonize(parameters)
  /\ lastArg' = parameters
  /\ blockTargets' = Monotonize(parameters)
  /\ audioPc' = "loop"
  /\ blockLeft' = numSamples
  /\ blockInput' = InputBlock(numSamples, numChannels)
  /\ buffer' = InPlaceBlock(InputBlock(numSamples, numChannels))
  /\ UNCHANGED << auxVars, raceVars, rotVars, warpVars, detVars, uiPaced, currentSampleRate, prepared, ringVars, visVars,
                  visualizationLock, frame, curDropped, uiPc, uiSnap, histVars,
                  total, frameSeq, fault, allocCount >>

HostCall ==
  \/ \E sr \in SampleRates, v \in StreamTargetVectors : PrepareToPlay(sr, v)
  \/ \E v \in StreamTargetVectors, n \in 1..MaxBlock : HostProcessBlock(v, n, 1)

NextHost ==
  \/ HostCall
  \/ AudioSample
  \/ ProcessEnd
  \/ AudioAnalysis
  \/ AudioTryEnter
  \/ AudioPublish
  \/ AudioExit
  \/ AudioSynthesis
  \/ UiEnter
  \/ UiRead
  \/ UiExit
  \/ UiEstimateBegin
  \/ UiEstimateEnd

SpecHost == Init /\ [][NextHost]_vars

\* the plug-in with an editor that never loads a reference file
NextHostNoEstimate ==
  \/ HostCall
  \/ AudioSample
  \/ ProcessEnd
  \/ AudioAnalysis
  \/ AudioTryEnter
  \/ AudioPublish
  \/ AudioExit
  \/ AudioSynthesis
  \/ UiEnter
  \/ UiRead
  \/ UiExit

SpecHostNoEstimate == Init /\ [][NextHostNoEstimate]_vars

(***************************************************************************)
(* The snapshot hand-over on its own, hop after hop without end: the audio  *)
(* thread at its try-lock, publishing or dropping, the editor's timer       *)
(* reading.  Frames are numbered round MaxFrames.                           *)
(***************************************************************************)
MaxFrames == 3

\* from one frame's resynthesis to the try-lock of the next hop's frame
NextHop ==
  /\ audioPc \in {"idle", "apply"}
  /\ audioPc' = "publish"
  /\ frameSeq' = (frameSeq % MaxFrames) + 1
  /\ UNCHANGED << auxVars, raceVars, rotVars, warpVars, detVars, hostVars, currentSampleRate, prepared, ringVars,
                  targetFormantsHz, visVars, visualizationLock, blockLeft, frame,
                  curDropped, uiPc, uiSnap, histVars, total, fault, allocCount, lastArg >>

\* timerCallback: getLatestVisualizationData; a paced timer fires after the
\* hop that follows a dropped update, not before
TimerRead ==
  /\ uiPaced => ~curDropped
  /\ UiEnter

InitPublish ==
  /\ Constructed
  /\ uiPaced \in BOOLEAN
  /\ sampleClass = << >>
  /\ currentSampleRate = 44100
  /\ prepared = TRUE
  /\ detEnvelope = << >>
  /\ detSampleRate = 0

NextPublish ==
  \/ NextHop
  \/ AudioTryEnter
  \/ AudioPublish
  \/ AudioExit
  \/ TimerRead
  \/ UiRead
  \/ UiExit

\* the audio thread keeps processing hops; a reader that has the lock reads
\* and releases it
SpecPublish ==
  /\ InitPublish
  /\ [][NextPublish]_vars
  /\ WF_vars(NextHop)
  /\ WF_vars(AudioTryEnter)
  /\ WF_vars(AudioPublish)
  /\ WF_vars(AudioExit)
  /\ WF_vars(UiRead)
  /\ WF_vars(UiExit)

(***************************************************************************)
(* process() on blocks of one or more channels, on a prepared processor     *)
(* with no reader of the snapshot.                                          *)
(***************************************************************************)
ChannelsCall ==
  \/ Reset
  \/ \E n \in 0..MaxBlock, c \in 1..MaxChannels : ProcessBegin(n, c)

InitChannels ==
  /\ Constructed
  /\ uiPaced = FALSE
  /\ sampleClass = << >>
  /\ currentSampleRate \in SampleRates
  /\ prepared = TRUE
  /\ detEnvelope = << >>
  /\ detSampleRate = 0

NextChannels ==
  \/ ChannelsCall
  \/ AudioSample
  \/ ProcessEnd
  \/ AudioAnalysis
  \/ AudioTryEnter
  \/ AudioPublish
  \/ AudioExit
  \/ AudioSynthesis

SpecChannels == InitChannels /\ [][NextChannels]_vars

(***************************************************************************)
(* FormantWarper::calculateWarpMap (a warper of its own, as in the test     *)
(* program).  A float is the fraction << numerator, denominator >> with a   *)
(* positive denominator, in lowest terms; the arithmetic is exact, the      *)
(* rounding of float is not modelled.  A point is [srcBin, dstBin].         *)
(***************************************************************************)
MaxWarpBins == 4
MaxNodes == 2

Abs(a) == IF a < 0 THEN -a ELSE a

RECURSIVE GCD(_, _)
GCD(a, b) == IF b = 0 THEN a ELSE GCD(b, a % b)

\* the fraction n/d (d # 0) in lowest terms with a positive denominator
Frac(n, d) ==
  LET g == GCD(Abs(n), Abs(d))
      sg == IF d < 0 THEN -1 ELSE 1
  IN  << (sg * n) \div g, (sg * d) \div g >>

Float(i) == << i, 1 >>
FAdd(a, b) == Frac(a[1] * b[2] + b[1] * a[2], a[2] * b[2])
FSub(a, b) == Frac(a[1] * b[2] - b[1] * a[2], a[2] * b[2])
FMul(a, b) == Frac(a[1] * b[1], a[2] * b[2])
FDiv(a, b) == Frac(a[1] * b[2], a[2] * b[1])
FLess(a, b) == a[1] * b[2] < b[1] * a[2]
FMax(a, b) == IF FLess(a, b) THEN b ELSE a
FMin(a, b) == IF FLess(b, a) THEN b ELSE a

\* 0.001f and 0.0001f
FrontAnchorEpsilon == Frac(1, 1000)
RangeEpsilon == Frac(1, 10000)

WarpingPoint(src, dst) == [srcBin |-> src, dstBin |-> dst]

\* the values a point's fields are drawn from, for a map of n bins
WarpDstValues(n) ==
  {Float(0 - 1), Float(0), Frac(1, 2000), Frac(19999, 20000), Float(1),
   Float(n - 1), Float(n + 1)}
WarpSrcValues(n) == {Float(0 - 1), Float(0), Float(1), Float(n + 1)}
WarpPointValues(n) ==
  {WarpingPoint(s, d) : s \in WarpSrcValues(n), d \in WarpDstValues(n)}
FreePointLists(n) ==
  UNION {[1..len -> WarpPointValues(n)] : len \in 0..MaxNodes}
\* any list of up to MaxNodes nodes, bare or between the two anchors as the
\* callers of the program pass it
WarpPointLists(n) ==
  FreePointLists(n)
    \cup {<< WarpingPoint(Float(0), Float(0)) >> \o inner
            \o << WarpingPoint(Float(n - 1), Float(n - 1)) >> : inner \in FreePointLists(n)}

\* lines 51-54: a front anchor only if the first point's dstBin exceeds 0.001
WithFrontAnchor(points) ==
  IF points = << >> \/ FLess(FrontAnchorEpsilon, points[1].dstBin)
  THEN << WarpingPoint(Float(0), Float(0)) >> \o points
  ELSE points

\* lines 58-61: a Nyquist anchor only if the last point's dstBin is below numBins - 1
WithBackAnchor(n, points) ==
  IF FLess(points[Len(points)].dstBin, Float(n - 1))
  THEN Append(points, WarpingPoint(Float(n - 1), Float(n - 1)))
  ELSE points

\* lines 64-66: what std::sort may leave: every arrangement of the points that is
\* ordered by dstBin (points of equal dstBin in any order)
InsertOrdered(sorted, point) ==
  {SubSeq(sorted, 1, k) \o << point >> \o SubSeq(sorted, k + 1, Len(sorted)) :
     k \in {k \in 0..Len(sorted) :
              /\ \A j \in 1..k : ~FLess(point.dstBin, sorted[j].dstBin)
              /\ \A j \in (k + 1)..Len(sorted) : ~FLess(sorted[j].dstBin, point.dstBin)}}

RECURSIVE SortedByDst(_)
SortedByDst(points) ==
  IF points = << >> THEN {<< >>}
  ELSE UNION {InsertOrdered(sorted, points[Len(points)]) :
                sorted \in SortedByDst(SubSeq(points, 1, Len(points) - 1))}

\* a loop that never leaves the segment it is in
KeepSegment(points, currentSegment, outBin) == currentSegment

\* lines 79-82: the while loop; segments are numbered from 0 as in the code
RECURSIVE AdvanceSegment(_, _, _)
AdvanceSegment(points, currentSegment, outBin) ==
  IF currentSegment < Len(points) - 1 /\ FLess(points[currentSegment + 2].dstBin, outBin)
  THEN AdvanceSegment(points, currentSegment + 1, outBin)
  ELSE currentSegment

\* the segment index the loop holds when it computes warpMap[i]
RECURSIVE SegmentOfBin(_, _)
SegmentOfBin(points, i) ==
  AdvanceSegment(points, IF i = 0 THEN 0 ELSE SegmentOfBin(points, i - 1), Float(i))

\* the interpolation stored as it is, without the clamp of line 102
WarpValueUnclamped(n, points, currentSegment, outBin) ==
  IF currentSegment >= Len(points) - 1
  THEN points[Len(points)].srcBin
  ELSE LET p0 == points[currentSegment + 1]
           p1 == points[currentSegment + 2]
           range == FSub(p1.dstBin, p0.dstBin)
           frac == IF FLess(RangeEpsilon, range)
                   THEN FDiv(FSub(outBin, p0.dstBin), range)
                   ELSE Float(0)
       IN  FAdd(p0.srcBin, FMul(frac, FSub(p1.srcBin, p0.srcBin)))

\* lines 84-103: the value stored in warpMap[i]
WarpValue(n, points, currentSegment, outBin) ==
  IF currentSegment >= Len(points) - 1
  THEN points[Len(points)].srcBin
  ELSE LET p0 == points[currentSegment + 1]
           p1 == points[currentSegment + 2]
           range == FSub(p1.dstBin, p0.dstBin)
           frac == IF FLess(RangeEpsilon, range)
                   THEN FDiv(FSub(outBin, p0.dstBin), range)
                   ELSE Float(0)
           srcVal == FAdd(p0.srcBin, FMul(frac, FSub(p1.srcBin, p0.srcBin)))
       IN  FMax(Float(0), FMin(srcVal, Float(n - 1)))

\* lines 72-104: the for loop, from bin i on
RECURSIVE GenerateMap(_, _, _, _, _)
GenerateMap(n, points, i, currentSegment, map) ==
  IF i >= n THEN map
  ELSE LET seg == AdvanceSegment(points, currentSegment, Float(i))
       IN  GenerateMap(n, points, i + 1, seg,
                       [map EXCEPT ![i] = WarpValue(n, points, seg, Float(i))])

CalculateWarpMap(n, points) ==
  /\ \E sorted \in SortedByDst(WithBackAnchor(n, WithFrontAnchor(points))) :
       /\ warpMap' = GenerateMap(n, sorted, 0, 0, [i \in 0..(n - 1) |-> Float(0)])
       /\ warpNumBins' = n
       /\ warpPoints' = points
  /\ UNCHANGED << auxVars, raceVars, rotVars, detVars, hostVars, currentSampleRate, prepared, ringVars, targetFormantsHz, visVars,
                  visualizationLock, audioPc, blockLeft, frame, curDropped, uiPc,
                  uiSnap, histVars, total, frameSeq, fault, allocCount, lastArg >>

\* dsp::FormantWarper warper; : a warper as constructed.  calculateWarpMap sizes
\* warpMap and writes each of its elements, so what a call leaves does not depend
\* on what the call before it left; calls are taken on a warper as constructed.
WarpConstruct ==
  /\ warpMap # << >>
  /\ warpMap' = << >>
  /\ warpNumBins' = 0
  /\ warpPoints' = << >>
  /\ UNCHANGED << auxVars, raceVars, rotVars, detVars, hostVars, currentSampleRate, prepared, ringVars, targetFormantsHz, visVars,
                  visualizationLock, audioPc, blockLeft, frame, curDropped, uiPc,
                  uiSnap, histVars, total, frameSeq, fault, allocCount, lastArg >>

\* FormantWarper::process, lines 149-156: the envelope indices read for bin i.
\* (int)srcIdx truncates toward zero.
Trunc(f) == IF f[1] >= 0 THEN f[1] \div f[2] ELSE 0 - ((0 - f[1]) \div f[2])

ProcessIdx0(map, i) == Trunc(map[i])

ProcessIdx1(map, i, size) == Min(ProcessIdx0(map, i) + 1, size - 1)

WarpCall ==
  /\ warpMap = << >>
  /\ \E n \in 2..MaxWarpBins : \E points \in WarpPointLists(n) :
       CalculateWarpMap(n, points)

NextWarp == WarpCall \/ WarpConstruct

SpecWarp == Init /\ [][NextWarp]_vars

(***************************************************************************)
(* SpectralProcessor::detectFormants.  The envelope of one frame is a       *)
(* function on 0..size-1 whose values are small magnitudes; the frame size  *)
(* the envelope belongs to is 2 * (size - 1), as numBins = fftSize / 2 + 1. *)
(* The float quotients are exact, (int) truncates.                          *)
(***************************************************************************)
DetectBins == 9

\* the magnitudes an envelope element is drawn from
Magnitudes == {0, 1, 2}

DetectFftSize == 2 * (DetectBins - 1)

\* sample rates that put the 150 Hz, 9000 Hz and 120 Hz marks at different bins
\* of a frame of DetectFftSize samples
DetectSampleRates == {480, 800, 16000}

Envelopes == [0..(DetectBins - 1) -> Magnitudes]

PeakFloorHz == 150
PeakCeilingHz == 9000
PeakDistanceHz == 120

\* line 232: std::max(1, (int)(150.0f / hzPerBin)), hzPerBin = sampleRate / fftSize
MinBinOf(sampleRate) == Max(1, (PeakFloorHz * DetectFftSize) \div sampleRate)

\* line 233
MaxBinOf(envelope, sampleRate) ==
  Min(Cardinality(DOMAIN envelope) - 2, (PeakCeilingHz * DetectFftSize) \div sampleRate)

\* line 234
MinDistanceBinsOf(sampleRate) == Max(2, (PeakDistanceHz * DetectFftSize) \div sampleRate)

\* juce::jlimit(lowerLimit, upperLimit, valueToConstrain)
JLimit(lo, hi, v) == IF v < lo THEN lo ELSE IF hi < v THEN hi ELSE v

\* lines 245-250: the bins of the local maxima between minBin and maxBin
Candidates(envelope, sampleRate) ==
  {i \in MinBinOf(sampleRate)..MaxBinOf(envelope, sampleRate) :
     envelope[i] > envelope[i - 1] /\ envelope[i] >= envelope[i + 1]}

\* lines 252-253: what std::sort may leave: every order of the candidates with
\* magnitudes descending (candidates of equal magnitude in any order)
RECURSIVE OrdersByMagnitude(_, _)
OrdersByMagnitude(envelope, bins) ==
  IF bins = {} THEN {<< >>}
  ELSE UNION {{<< b >> \o rest : rest \in OrdersByMagnitude(envelope, bins \ {b})} :
                b \in {c \in bins : \A d \in bins : envelope[d] <= envelope[c]}}

\* lines 258-275: the greedy selection, from the k-th candidate on
RECURSIVE SelectFrom(_, _, _, _)
SelectFrom(order, k, selected, minDistanceBins) ==
  IF k > Len(order) THEN selected
  ELSE LET tooClose == \E chosen \in selected : Abs(chosen - order[k]) < minDistanceBins
           selected2 == IF tooClose THEN selected ELSE selected \cup {order[k]}
       IN  IF Cardinality(selected2) >= numFormants THEN selected2
           ELSE SelectFrom(order, k + 1, selected2, minDistanceBins)

\* line 277: std::sort(selected): the bins in ascending order
RECURSIVE Ascending(_)
Ascending(bins) ==
  IF bins = {} THEN << >>
  ELSE LET least == CHOOSE b \in bins : \A c \in bins : b <= c
       IN  << least >> \o Ascending(bins \ {least})

\* line 288: lastBin = std::min(maxBin, lastBin + minDistanceBins)
PadStep(maxBin, lastBin, minDistanceBins) == Min(maxBin, lastBin + minDistanceBins)

\* lines 279-292: the output loop, from the i-th formant on (i counts from 1)
RECURSIVE FillFrom(_, _, _, _, _, _, _)
FillFrom(selected, i, lastBin, out, minBin, maxBin, minDistanceBins) ==
  IF i > numFormants THEN out
  ELSE LET next == IF i <= Len(selected)
                   THEN Max(lastBin + (IF i = 1 THEN 0 ELSE minDistanceBins \div 2),
                            selected[i])
                   ELSE PadStep(maxBin, lastBin, minDistanceBins)
       IN  FillFrom(selected, i + 1, next,
                    [out EXCEPT ![i] = JLimit(minBin, maxBin, next)],
                    minBin, maxBin, minDistanceBins)

\* the results detectFormants may give
DetectFormants(envelope, sampleRate) ==
  LET minBin == MinBinOf(sampleRate)
      maxBin == MaxBinOf(envelope, sampleRate)
      minDistanceBins == MinDistanceBinsOf(sampleRate)
  IN  {FillFrom(Ascending(SelectFrom(order, 1, {}, minDistanceBins)), 1, Max(minBin, 1),
                [i \in 1..numFormants |-> 0], minBin, maxBin, minDistanceBins) :
         order \in OrdersByMagnitude(envelope, Candidates(envelope, sampleRate))}

\* detectFormants(envelope, sampleRate, currentFormantBins)
DetectFormantsCall ==
  /\ detSampleRate # 0
  /\ currentFormantBins' \in DetectFormants(detEnvelope, detSampleRate)
  /\ UNCHANGED << auxVars, raceVars, rotVars, warpVars, hostVars, detEnvelope, detSampleRate, warpedEnvelope, estimatedHz,
                  estFrame, estRead,
                  currentSampleRate, prepared,
                  ringVars, targetFormantsHz, visVars, visualizationLock, audioPc,
                  blockLeft, frame, curDropped, uiPc, uiSnap, histVars, total,
                  frameSeq, fault, allocCount, lastArg >>

\* a processor prepared at some sample rate, with the envelope of a frame about
\* to be analysed
InitDetect ==
  /\ Constructed
  /\ uiPaced = FALSE
  /\ sampleClass = << >>
  /\ currentSampleRate \in DetectSampleRates
  /\ prepared = TRUE
  /\ detEnvelope \in Envelopes
  /\ detSampleRate = currentSampleRate

NextDetect == DetectFormantsCall

SpecDetect == InitDetect /\ [][NextDetect]_vars

(***************************************************************************)
(* processBlock, lines 359-380: formant detection, warp nodes, warp map and *)
(* warped envelope of one frame, at the scale of the detection above.       *)
(***************************************************************************)
\* line 366: hzPerBin = (float)currentSampleRate / (float)fftSize
HzPerBin(sampleRate) == Frac(sampleRate, DetectFftSize)

\* juce::jlimit on floats
FLimit(lo, hi, v) == IF FLess(v, lo) THEN lo ELSE IF FLess(hi, v) THEN hi ELSE v

\* lines 368-375: the formant nodes from the i-th on; dst is limited to
\* [lastDst + 1, numBins - 2]
RECURSIVE FormantNodesFrom(_, _, _, _, _, _)
FormantNodesFrom(bins, targetHz, sampleRate, n, i, lastDst) ==
  IF i > numFormants THEN << >>
  ELSE LET src == Float(bins[i])
           targetBin == FDiv(Float(targetHz[i]), FMax(Float(1), HzPerBin(sampleRate)))
           dst == FLimit(FAdd(lastDst, Float(1)), Float(n - 2), targetBin)
       IN  << WarpingPoint(src, dst) >>
             \o FormantNodesFrom(bins, targetHz, sampleRate, n, i + 1, dst)

\* lines 362-377: the points handed to calculateWarpMap
WarpNodes(bins, targetHz, sampleRate, n) ==
  << WarpingPoint(Float(0), Float(0)) >>
    \o FormantNodesFrom(bins, targetHz, sampleRate, n, 1, Float(0))
    \o << WarpingPoint(Float(n - 1), Float(n - 1)) >>

\* FormantWarper::process, lines 147-159: the envelope read at the map's positions
WarpEnvelope(map, envelope, size) ==
  [i \in 0..(size - 1) |->
     LET idx0 == ProcessIdx0(map, i)
         idx1 == ProcessIdx1(map, i, size)
         frac == FSub(map[i], Float(idx0))
     IN  FAdd(Float(envelope[idx0]),
              FMul(frac, FSub(Float(envelope[idx1]), Float(envelope[idx0]))))]

\* the frequency of a bin; the sample rates of the model are multiples of the
\* frame size, so this is a whole number of Hz
HzOfBin(bin, sampleRate) == (bin * sampleRate) \div DetectFftSize

DetectedHz == [i \in 1..numFormants |-> HzOfBin(currentFormantBins[i], currentSampleRate)]

\* the analysis of one frame whose extracted envelope is detEnvelope
AnalyseFrame ==
  /\ detSampleRate' = currentSampleRate
  /\ \E bins \in DetectFormants(detEnvelope, currentSampleRate) :
       LET n == Cardinality(DOMAIN detEnvelope)
           points == WarpNodes(bins, targetFormantsHz, currentSampleRate, n)
       IN  /\ currentFormantBins' = bins
           /\ warpPoints' = points
           /\ warpNumBins' = n
           /\ \E sorted \in SortedByDst(WithBackAnchor(n, WithFrontAnchor(points))) :
                LET map == GenerateMap(n, sorted, 0, 0, [i \in 0..(n - 1) |-> Float(0)])
                IN  /\ warpMap' = map
                    /\ warpedEnvelope' = WarpEnvelope(map, detEnvelope, n)
  /\ UNCHANGED << auxVars, raceVars, rotVars, hostVars, detEnvelope, estimatedHz, estFrame, estRead,
                  currentSampleRate, prepared, ringVars, targetFormantsHz,
                  visVars, visualizationLock, audioPc, blockLeft, frame, curDropped,
                  uiPc, uiSnap, histVars, total, frameSeq, fault, allocCount, lastArg >>

\* the targets a frame may meet: what the last frame detected, in Hz (as the
\* source-file analysis hands over), the same one bin higher, or the defaults
FrameTargetVectors ==
  {DetectedHz,
   [i \in 1..numFormants |-> HzOfBin(currentFormantBins[i] + 1, currentSampleRate)],
   DefaultFormantsHz}

FrameTargetsCall == \E v \in FrameTargetVectors : SetTargetFormantsHz(v)

\* the envelopes of the frames: every shape of local maxima, all of one height
FrameEnvelopes == [0..(DetectBins - 1) -> {0, 1}]

\* a processor prepared at some sample rate, about to analyse frames whose
\* extracted envelope is detEnvelope
InitFrame ==
  /\ Constructed
  /\ uiPaced = FALSE
  /\ sampleClass = << >>
  /\ currentSampleRate \in DetectSampleRates
  /\ prepared = TRUE
  /\ detEnvelope \in FrameEnvelopes
  /\ detSampleRate = currentSampleRate

NextFrame == AnalyseFrame \/ FrameTargetsCall

SpecFrame == InitFrame /\ [][NextFrame]_vars

(***************************************************************************)
(* estimateFormantsFromBuffer, lines 295-336.  The reference buffer is its  *)
(* sample count, its channel count and the envelope its centre window has;  *)
(* the scratch envelope the call overwrites is detEnvelope.                 *)
(***************************************************************************)
BufferSampleCounts == {0, DetectFftSize}

BufferChannelCounts == {0, 1}

\* the envelopes of the reference buffers: every shape of the three lowest bins
\* above bin 0
EstimateEnvelopes ==
  {[i \in 0..(DetectBins - 1) |-> IF i \in high THEN 1 ELSE 0] : high \in SUBSET (1..3)}

\* an estimate without the test of lines 300-301
\* a start that is not kept at or above 0
EstimateStartUnclamped(totalSamples) ==
  (totalSamples \div 2) - (DetectFftSize \div 2)

\* start = std::max(0, (totalSamples / 2) - (fftSize / 2))
EstimateStart(totalSamples) ==
  Max(0, (totalSamples \div 2) - (DetectFftSize \div 2))

\* copyCount = std::min(fftSize, totalSamples - start)
EstimateCopyCount(totalSamples) ==
  Min(DetectFftSize, totalSamples - EstimateStart(totalSamples))

\* frame(fftSize, 0.0f) after std::copy(readPtr + start, readPtr + start +
\* copyCount, frame.begin()): place k holds source sample start + k
EstimateFrame(totalSamples) ==
  [k \in 0..(DetectFftSize - 1) |->
     IF k < EstimateCopyCount(totalSamples) THEN EstimateStart(totalSamples) + k
     ELSE 0 - 1]

\* the source indices that std::copy reads
EstimateReads(totalSamples) ==
  {EstimateStart(totalSamples) + k : k \in 0..(EstimateCopyCount(totalSamples) - 1)}

EstimateWithoutEmptyTest(numSamples, numChannels, sourceSampleRate, envelope) ==
  /\ detEnvelope' = envelope
  /\ estFrame' = EstimateFrame(numSamples)
  /\ estRead' = EstimateReads(numSamples)
  /\ detSampleRate' = sourceSampleRate
  /\ \E bins \in DetectFormants(envelope, sourceSampleRate) :
       estimatedHz' = [i \in 1..numFormants |-> HzOfBin(bins[i], sourceSampleRate)]
  /\ UNCHANGED << auxVars, raceVars, rotVars, warpVars, hostVars, currentFormantBins, warpedEnvelope, currentSampleRate,
                  prepared, ringVars, targetFormantsHz, visVars, visualizationLock,
                  audioPc, blockLeft, frame, curDropped, uiPc, uiSnap, histVars, total,
                  frameSeq, fault, allocCount, lastArg >>

EstimateFormantsFromBuffer(numSamples, numChannels, sourceSampleRate, envelope) ==
  /\ IF numSamples <= 0 \/ numChannels <= 0
     THEN /\ estimatedHz' = targetFormantsHz
          /\ UNCHANGED << detEnvelope, detSampleRate, estFrame, estRead >>
     ELSE /\ detEnvelope' = envelope
          /\ estFrame' = EstimateFrame(numSamples)
          /\ estRead' = EstimateReads(numSamples)
          /\ detSampleRate' = sourceSampleRate
          /\ \E bins \in DetectFormants(envelope, sourceSampleRate) :
               estimatedHz' = [i \in 1..numFormants |-> HzOfBin(bins[i], sourceSampleRate)]
  /\ UNCHANGED << auxVars, raceVars, rotVars, warpVars, hostVars, currentFormantBins, warpedEnvelope, currentSampleRate,
                  prepared, ringVars, targetFormantsHz, visVars, visualizationLock,
                  audioPc, blockLeft, frame, curDropped, uiPc, uiSnap, histVars, total,
                  frameSeq, fault, allocCount, lastArg >>

EstimateCall ==
  \E numSamples \in BufferSampleCounts, numChannels \in BufferChannelCounts,
     sourceSampleRate \in DetectSampleRates, envelope \in EstimateEnvelopes :
    EstimateFormantsFromBuffer(numSamples, numChannels, sourceSampleRate, envelope)

\* a call with a buffer of no samples or no channels
EstimateEmptyCall ==
  \E numSamples \in BufferSampleCounts, numChannels \in BufferChannelCounts,
     sourceSampleRate \in DetectSampleRates, envelope \in EstimateEnvelopes :
    /\ numSamples <= 0 \/ numChannels <= 0
    /\ EstimateFormantsFromBuffer(numSamples, numChannels, sourceSampleRate, envelope)

\* PluginProcessor.cpp line 137: the estimate becomes the target
ApplyEstimate ==
  /\ estimatedHz # << >>
  /\ SetTargetFormantsHz(estimatedHz)

\* a processor prepared at some sample rate; no frame analysed yet
InitEstimate ==
  /\ Constructed
  /\ uiPaced = FALSE
  /\ sampleClass = << >>
  /\ currentSampleRate \in DetectSampleRates
  /\ prepared = TRUE
  /\ detEnvelope = [i \in 0..(DetectBins - 1) |-> 0]
  /\ detSampleRate = 0

\* PluginProcessor.cpp line 253: the targets of the parameters
StreamTargetsCall == \E v \in StreamTargetVectors : SetTargetFormantsHz(v)

NextEstimate == EstimateCall \/ ApplyEstimate \/ StreamTargetsCall

SpecEstimate == InitEstimate /\ [][NextEstimate]_vars

(***************************************************************************)
(* Helpers of the properties                                                *)
(***************************************************************************)
\* the state prepare(spec) leaves: both rings zero, hop counter and ring
\* positions zero, the sample rate of the spec, the extractor prepared
Flushed(sampleRate) ==
  /\ \A p \in Slots : inputFifo[p] = 0 /\ outputAccumulator[p] = {}
  /\ hopCounter = 0
  /\ inputWritePos = 0
  /\ outputReadPos = 0
  /\ currentSampleRate = sampleRate
  /\ prepared

\* the samples of the current block that process() has consumed
BlockDone == Len(blockInput[0]) - blockLeft

\* the frames triggered inside the current block
BlockFrames == {j \in DOMAIN frameLog : frameLog[j].T > Len(inLog) - BlockDone}

\* the try-lock of the latest frame failed, its update is dropped
Dropped == audioPc = "apply" /\ curDropped

\* the latest frame has written all four fields of the snapshot under the lock
Published ==
  /\ audioPc = "pubExit"
  /\ ~curDropped
  /\ visSpectrum = frameSeq
  /\ visEnvelope = frameSeq
  /\ visF1 = frameSeq
  /\ visF2 = frameSeq

\* the raw input sample x seen as an output value (a pass-through)
Dry(x) == {<< 0, x >>}

\* the frames of frameLog whose overlap-add is done
CompletedFrames ==
  IF audioPc \in {"idle", "loop"} THEN 1..Len(frameLog) ELSE 1..(Len(frameLog) - 1)

\* the input samples since the last reset with (0-based) index below j
InputsBefore(j) == {inLog[m] : m \in 1..Min(j, Len(inLog))}

\* the accumulator slot that will be read for the (0-based) output index i
SlotOfOutput(i) == (outputReadPos + (i - Len(outLog))) % fftSize

\* the k-th synthesized sample of frame f is where output index T + k takes it from
InPlace(f, k) ==
  LET i == frameLog[f].T + k
      c == SynthSample(frameLog[f].seq, k)
  IN  IF i < Len(outLog) THEN c \in outLog[i + 1]
      ELSE c \in outputAccumulator[SlotOfOutput(i)]

AudioInProcessBlock ==
  audioPc \in {"analysis", "publish", "pubSpectrum", "pubEnvelope", "pubF1", "pubF2",
               "pubExit", "apply"}

\* a node list that starts at {0,0}, ends at {n-1,n-1} and has strictly
\* increasing dst values
AnchoredIncreasing(points, n) ==
  /\ Len(points) >= 2
  /\ points[1] = WarpingPoint(Float(0), Float(0))
  /\ points[Len(points)] = WarpingPoint(Float(n - 1), Float(n - 1))
  /\ \A j \in 1..(Len(points) - 1) : FLess(points[j].dstBin, points[j + 1].dstBin)

\* the straight line through the nodes p0 and p1, at output bin i
Interpolation(p0, p1, i) ==
  FAdd(p0.srcBin,
       FMul(FDiv(FSub(Float(i), p0.dstBin), FSub(p1.dstBin, p0.dstBin)),
            FSub(p1.srcBin, p0.srcBin)))

Clamped(x, n) == FMax(Float(0), FMin(x, Float(n - 1)))

\* the pairs of neighbouring nodes whose dst values bracket bin i
Brackets(points, i) ==
  {j \in 1..(Len(points) - 1) :
     ~FLess(Float(i), points[j].dstBin) /\ ~FLess(points[j + 1].dstBin, Float(i))}

\* neighbouring dst values are more than 0.0001 apart
WideSegments(points) ==
  \A j \in 1..(Len(points) - 1) :
    FLess(Frac(1, 10000), FSub(points[j + 1].dstBin, points[j].dstBin))

(***************************************************************************)
(* C1  Monotone targets.  Initially and after every setTargetFormantsHz(v), *)
(* for every vector v, the stored vector t has t[first] >= 200 and every    *)
(* later element at least 20 above its predecessor.                         *)
(***************************************************************************)
C1_MonotoneTargets ==
  /\ targetFormantsHz[1] >= 200
  /\ \A i \in 2..numFormants : targetFormantsHz[i] >= targetFormantsHz[i - 1] + 20

\* a call whose argument broke both floors and was raised
C1_Witness ==
  /\ lastArg # << >>
  /\ lastArg[1] < 200
  /\ \E i \in 2..numFormants : lastArg[i] < lastArg[i - 1] + 20
  /\ targetFormantsHz # lastArg

(***************************************************************************)
(* C2  Process before prepare is a pass-through: as long as prepare was     *)
(* never called, every output sample equals the input sample of the same    *)
(* index and nothing faults.  (The code has no such guard.)                 *)
(***************************************************************************)
C2_PassThroughBeforePrepare ==
  ~prepared =>
    /\ ~fault
    /\ \A j \in 1..Len(outLog) : outLog[j] = Dry(inLog[j])

(***************************************************************************)
(* C3  One output sample per input sample, and causality: the output sample *)
(* of index k is made only of frames whose samples are inputs 0..k-1 (or    *)
(* the zeros of the reset ring); input k and later inputs are not in it.    *)
(***************************************************************************)
C3_CausalOutput ==
  /\ Len(outLog) = Len(inLog)
  /\ \A j \in 1..Len(outLog) : \A c \in outLog[j] :
       \E f \in 1..Len(frameLog) :
         /\ frameLog[f].seq = c[1]
         /\ \A k \in 1..fftSize :
              frameLog[f].data[k] # 0 => frameLog[f].data[k] \in InputsBefore(j - 1)

\* the tight case: an output that holds the first sample of the frame that the
\* input just before it triggered
C3_Witness ==
  \E j \in 1..Len(outLog) : \E c \in outLog[j] :
    /\ c[2] = 0
    /\ \E f \in 1..Len(frameLog) :
         frameLog[f].seq = c[1] /\ inLog[j - 1] \in {frameLog[f].data[k] : k \in 1..fftSize}

(***************************************************************************)
(* C4  Overlap-add alignment.  The k-th synthesized sample of the frame     *)
(* triggered after T samples is in the output of index T + k and in no      *)
(* other, every contribution is emitted exactly once, and an output of      *)
(* index >= fftSize is the sum of exactly four consecutive frames.          *)
(***************************************************************************)
C4_OverlapAddAligned ==
  /\ \A j \in 1..Len(outLog) : \A c \in outLog[j] :
       \E f \in 1..Len(frameLog) :
         frameLog[f].seq = c[1] /\ frameLog[f].T + c[2] = j - 1
  /\ \A f \in 1..Len(frameLog) : \A k \in 0..(fftSize - 1) :
       frameLog[f].T + k < Len(outLog)
         => SynthSample(frameLog[f].seq, k) \in outLog[frameLog[f].T + k + 1]
  /\ \A j \in (fftSize + 1)..Len(outLog) :
       /\ Cardinality(outLog[j]) = 4
       /\ \E f \in 1..(Len(frameLog) - 3) :
            {c[1] : c \in outLog[j]} = {frameLog[f + d].seq : d \in 0..3}

\* an output of index >= fftSize has been emitted by a prepared processor
C4_Witness == prepared /\ Len(outLog) > fftSize /\ outLog[Len(outLog)] # {}

(***************************************************************************)
(* C5  reset() zeroes both rings, the hop counter and the ring positions    *)
(* and leaves the sample rate, the targets, the extractor's tables and the  *)
(* visualization snapshot as they were.                                     *)
(***************************************************************************)
C5_ResetEffect ==
  [][Reset =>
       /\ \A p \in Slots : inputFifo'[p] = 0 /\ outputAccumulator'[p] = {}
       /\ hopCounter' = 0
       /\ inputWritePos' = 0
       /\ outputReadPos' = 0
       /\ UNCHANGED << currentSampleRate, targetFormantsHz, prepared, visVars >>]_vars

\* a reset has emptied rings that were in use on a processor that was never
\* prepared (so no prepare did it), the positions are back at 0
C5_Witness ==
  /\ ~prepared
  /\ total >= fftSize - 1
  /\ inLog = << >>
  /\ inputWritePos = 0
  /\ \A p \in Slots : inputFifo[p] = 0

(***************************************************************************)
(* C6  While running, process() makes no heap allocation on the audio       *)
(* thread.  (The code allocates the frame vector and the vectors of the     *)
(* analysis in every hop.)                                                  *)
(***************************************************************************)
C6_NoAllocationInProcess == allocCount = 0

(***************************************************************************)
(* C7  The audio thread never waits for the snapshot: at the publish step   *)
(* its try-lock can always be taken as a step, and when the lock is held    *)
(* the update is dropped, the snapshot is left alone, and the frame is      *)
(* overlap-added exactly as a frame whose update was published.             *)
(***************************************************************************)
C7_PublishNeverWaits ==
  /\ audioPc = "publish" => ENABLED AudioTryEnter
  /\ \A f \in CompletedFrames : \A k \in 0..(fftSize - 1) : InPlace(f, k)
  /\ (curDropped /\ audioPc \in {"apply", "loop", "idle"}) => visSpectrum # frameSeq

\* a frame whose update was dropped has been overlap-added and a sample of it
\* has been emitted
C7_Witness ==
  /\ curDropped
  /\ audioPc = "loop"
  /\ \E j \in 1..Len(outLog) : SynthSample(frameSeq, 0) \in outLog[j]

(***************************************************************************)
(* C8  Whatever the interleaving of publish and read, the four fields the   *)
(* reader gets were written by one and the same frame (or are all initial). *)
(***************************************************************************)
C8_SnapshotOfOneFrame ==
  uiPc \in {"rdExit", "idle", "estimate"} =>
    /\ uiSnap.spectrum = uiSnap.envelope
    /\ uiSnap.envelope = uiSnap.f1
    /\ uiSnap.f1 = uiSnap.f2

\* the reader got the snapshot of a second or later frame while the audio
\* thread, locked out, dropped the update of a frame after that
C8_Witness ==
  /\ uiPc = "rdExit"
  /\ uiSnap.f2 >= 2
  /\ curDropped
  /\ frameSeq > uiSnap.f2

(***************************************************************************)
(* C9  The offline estimate and a frame of the audio thread exclude each    *)
(* other, so the scratch buffers are never used by both threads at once.    *)
(* (Nothing in the code keeps them apart.)                                  *)
(***************************************************************************)
C9_EstimateExcludesFrame == ~(uiPc = "estimate" /\ AudioInProcessBlock)

(***************************************************************************)
(* C10  Whatever node list calculateWarpMap is given (empty, partial,       *)
(* unsorted, arbitrary src values), the map is anchored at both ends:       *)
(* WarpMap[0] = 0 and WarpMap[num_bins - 1] = num_bins - 1.  (The code adds *)
(* no anchor for a first node with dst <= 0.001 or a last node with         *)
(* dst >= num_bins - 1, whatever their src.)                                *)
(***************************************************************************)
C10_WarpMapAnchored ==
  warpNumBins > 0 =>
    /\ warpMap[0] = Float(0)
    /\ warpMap[warpNumBins - 1] = Float(warpNumBins - 1)

(***************************************************************************)
(* C11  For any finite node list and num_bins >= 2, every WarpMap[i] is in  *)
(* [0, num_bins - 1]; the unclamped assignment of the branch taken when the *)
(* segment index is past the last node is never reached; and process, run   *)
(* on envelopes of num_bins elements, reads indices inside the array only.  *)
(***************************************************************************)
C11_WarpMapInRange ==
  warpNumBins > 0 =>
    /\ \A i \in 0..(warpNumBins - 1) :
         /\ ~FLess(warpMap[i], Float(0))
         /\ ~FLess(Float(warpNumBins - 1), warpMap[i])
         /\ ProcessIdx0(warpMap, i) \in 0..(warpNumBins - 1)
         /\ ProcessIdx1(warpMap, i, warpNumBins) \in 0..(warpNumBins - 1)
    /\ \A sorted \in SortedByDst(WithBackAnchor(warpNumBins, WithFrontAnchor(warpPoints))) :
         \A i \in 0..(warpNumBins - 1) : SegmentOfBin(sorted, i) < Len(sorted) - 1

\* a call whose nodes have src values below 0 and above num_bins - 1, and whose
\* map touches both ends of the range
C11_Witness ==
  /\ warpNumBins > 2
  /\ \E j \in 1..Len(warpPoints) : FLess(warpPoints[j].srcBin, Float(0))
  /\ \E j \in 1..Len(warpPoints) : FLess(Float(warpNumBins - 1), warpPoints[j].srcBin)
  /\ \E i \in 0..(warpNumBins - 1) : warpMap[i] = Float(warpNumBins - 1)
  /\ \E i \in 0..(warpNumBins - 1) : warpMap[i] = Float(0)

(***************************************************************************)
(* C12  For any non-empty envelope and any sample rate, detectFormants      *)
(* gives numFormants bins that are strictly increasing, also when fewer     *)
(* peaks are found and the result is padded, and when peaks or padding      *)
(* reach maxBin.  (The padding of the code stays at maxBin once there.)     *)
(***************************************************************************)
C12_BinsStrictlyIncreasing ==
  currentFormantBins[1] # 0 =>
    \A i \in 1..(numFormants - 1) : currentFormantBins[i] < currentFormantBins[i + 1]

(***************************************************************************)
(* C13  Identity warp.  If the targets handed to setTargetFormantsHz are    *)
(* the frame's detected formants in Hz, every warp node of the frame has    *)
(* dst = src, the warp map is the identity and the warped envelope is the   *)
(* original one (so that every scale is 1).  (The code raises a target      *)
(* below 200 Hz and a node dst that is not above the one before it.)        *)
(***************************************************************************)
C13_IdentityWarp ==
  [][(AnalyseFrame /\ lastArg = [i \in 1..numFormants |->
                                  HzOfBin(currentFormantBins'[i], currentSampleRate)])
       => /\ \A j \in 1..Len(warpPoints') : warpPoints'[j].dstBin = warpPoints'[j].srcBin
          /\ \A i \in 0..(warpNumBins' - 1) :
               warpMap'[i] = Float(i) /\ warpedEnvelope'[i] = Float(detEnvelope[i])]_vars

(***************************************************************************)
(* C14  setTargetFormantsHz(v) stores t[first] = max(v[first], 200) and     *)
(* t[i] = max(v[i], t[i-1] + 20): an element at or above its floor is kept  *)
(* as given, one below is raised to the floor, no update is refused; an     *)
(* input that never exceeds the running floor is stored as 200, 220, 240... *)
(***************************************************************************)
C14_MonotonizedValues ==
  lastArg # << >> =>
    /\ targetFormantsHz[1] = Max(lastArg[1], 200)
    /\ \A i \in 2..numFormants :
         targetFormantsHz[i] = Max(lastArg[i], targetFormantsHz[i - 1] + 20)
    /\ \A i \in 1..numFormants :
         /\ (i = 1 /\ lastArg[i] >= 200) => targetFormantsHz[i] = lastArg[i]
         /\ (i > 1 /\ lastArg[i] >= targetFormantsHz[i - 1] + 20)
              => targetFormantsHz[i] = lastArg[i]
    /\ (\A i \in 1..numFormants : lastArg[i] <= 200 + 20 * (i - 1))
         => \A i \in 1..numFormants : targetFormantsHz[i] = 200 + 20 * (i - 1)

\* the update 100, 90, ... has been stored as 200, 220, ...
C14_Witness ==
  /\ lastArg # << >>
  /\ lastArg[1] = 100
  /\ \A i \in 2..numFormants : lastArg[i] = 90
  /\ \A i \in 1..numFormants : targetFormantsHz[i] = 200 + 20 * (i - 1)

(***************************************************************************)
(* C15 as stated  For a node list from {0,0} to {n-1,n-1} with strictly     *)
(* increasing dst, WarpMap[i] is the linear interpolation of src between    *)
(* the two nodes whose dst bracket i; WarpMap[d] = s for every node {s,d}   *)
(* with integer d; with the two anchors only, WarpMap[i] = i.               *)
(***************************************************************************)
C15_PiecewiseLinearAsStated ==
  (warpNumBins > 0 /\ AnchoredIncreasing(warpPoints, warpNumBins)) =>
    /\ \A i \in 0..(warpNumBins - 1) :
         \E j \in Brackets(warpPoints, i) :
           warpMap[i] = Interpolation(warpPoints[j], warpPoints[j + 1], i)
    /\ \A j \in 1..Len(warpPoints) : \A d \in 0..(warpNumBins - 1) :
         warpPoints[j].dstBin = Float(d) => warpMap[d] = warpPoints[j].srcBin
    /\ Len(warpPoints) = 2 => \A i \in 0..(warpNumBins - 1) : warpMap[i] = Float(i)

(***************************************************************************)
(* C15 amended  For such a node list whose neighbouring dst values are more *)
(* than 0.0001 apart, WarpMap[i] is the linear interpolation of src between *)
(* the two nodes whose dst bracket i, clamped to [0, n-1]; WarpMap[d] is s  *)
(* clamped to [0, n-1] for every node {s,d} with integer d (so it is s when *)
(* s is inside the range); with the two anchors only, WarpMap[i] = i.       *)
(***************************************************************************)
C15_PiecewiseLinearClamped ==
  (warpNumBins > 0 /\ AnchoredIncreasing(warpPoints, warpNumBins)
     /\ WideSegments(warpPoints)) =>
    /\ \A i \in 0..(warpNumBins - 1) :
         \E j \in Brackets(warpPoints, i) :
           warpMap[i] =
             Clamped(Interpolation(warpPoints[j], warpPoints[j + 1], i), warpNumBins)
    /\ \A j \in 1..Len(warpPoints) : \A d \in 0..(warpNumBins - 1) :
         warpPoints[j].dstBin = Float(d)
           => warpMap[d] = Clamped(warpPoints[j].srcBin, warpNumBins)
    /\ Len(warpPoints) = 2 => \A i \in 0..(warpNumBins - 1) : warpMap[i] = Float(i)

\* four bins, nodes {0,0}, {0,1}, {3,3}: WarpMap[1] = 0 and WarpMap[2] = 3/2
C15_Witness ==
  /\ warpNumBins = 4
  /\ warpPoints = << WarpingPoint(Float(0), Float(0)), WarpingPoint(Float(0), Float(1)),
                     WarpingPoint(Float(3), Float(3)) >>
  /\ warpMap[1] = Float(0)
  /\ warpMap[2] = Frac(3, 2)

(***************************************************************************)
(* C16  estimateFormantsFromBuffer on a buffer of zero samples or zero      *)
(* channels returns exactly the stored targetFormantsHz and changes no      *)
(* state of the processor (rings, hop counter, targets, scratch buffers,    *)
(* snapshot).                                                               *)
(***************************************************************************)
C16_EmptyBufferEstimate ==
  [][EstimateEmptyCall =>
       /\ estimatedHz' = targetFormantsHz
       /\ UNCHANGED << currentSampleRate, prepared, ringVars, targetFormantsHz, visVars,
                       visualizationLock, warpVars, currentFormantBins, detEnvelope,
                       detSampleRate, warpedEnvelope >>]_vars

\* an empty-buffer call has returned the stored targets 200, 220, ... (which no
\* detection gives) on a processor whose scratch envelope holds an earlier analysis
C16_Witness ==
  /\ estimatedHz = targetFormantsHz
  /\ targetFormantsHz[1] = 200
  /\ targetFormantsHz[2] = 220
  /\ detSampleRate # 0

(***************************************************************************)
(* C17  After process() has returned, every channel of the block holds the  *)
(* samples the loop emitted on channel 0, as many as were handed in, and no *)
(* sample that came in on another channel (those are negative) has reached  *)
(* the input ring, a working frame or a frame that produced output.         *)
(***************************************************************************)
C17_ChannelZeroOnly ==
  /\ \A p \in Slots : inputFifo[p] >= 0
  /\ \A k \in DOMAIN frame : frame[k] >= 0
  /\ \A j \in DOMAIN frameLog : \A k \in 1..fftSize : frameLog[j].data[k] >= 0
  /\ \A j \in DOMAIN inLog : inLog[j] >= 1
  /\ (audioPc = "idle" /\ DOMAIN buffer # {}) =>
        /\ \A ch \in DOMAIN buffer :
              /\ Len(buffer[ch]) = Len(blockInput[ch])
              /\ buffer[ch] = buffer[0]
        /\ Len(outLog) >= Len(buffer[0]) =>
              buffer[0] = SubSeq(outLog, Len(outLog) - Len(buffer[0]) + 1, Len(outLog))

\* a block of two channels and MaxBlock samples has been processed, its last
\* output sample carries a frame, and channel 1 came in with other samples
C17_Witness ==
  /\ audioPc = "idle"
  /\ DOMAIN buffer = 0..1
  /\ Len(buffer[0]) = MaxBlock
  /\ buffer[1] = buffer[0]
  /\ buffer[0][MaxBlock] # {}
  /\ outLog # << >>
  /\ blockInput[1][MaxBlock] < 0
  /\ blockInput[0][MaxBlock] = total

(***************************************************************************)
(* C18  prepare(spec) ends with both rings zero, the hop counter and the    *)
(* ring positions zero and the sample rate of the spec, leaves the targets  *)
(* as they were, and called on the state an earlier prepare(spec) with the  *)
(* same spec left it changes nothing at all.                                *)
(***************************************************************************)
C18_PrepareIdempotent ==
  [][\A sr \in SampleRates :
       Prepare(sr) =>
         /\ Flushed(sr)'
         /\ UNCHANGED targetFormantsHz
         /\ Flushed(sr) => UNCHANGED vars]_vars

\* a processor that has run frames and has had its targets set is flushed at a
\* sample rate only prepare stores
C18_Witness ==
  /\ Flushed(48000)
  /\ frameSeq >= 2
  /\ visSpectrum >= 1
  /\ inLog = << >>
  /\ targetFormantsHz # DefaultFormantsHz

(***************************************************************************)
(* C19  In a block of the host, a frame about to be analysed finds the      *)
(* targets the block stored at its start, and an output sample emitted no   *)
(* later than the block's first frame trigger carries no frame of the       *)
(* block.  (The editor's file chooser stores an estimate from the UI        *)
(* thread in the middle of a block.)                                        *)
(***************************************************************************)
C19_FramesUseBlockTargets ==
  /\ audioPc = "analysis" => targetFormantsHz = blockTargets
  /\ (audioPc # "idle" /\ DOMAIN blockInput # {}) =>
        \A i \in 1..BlockDone :
          (\A j \in BlockFrames : frameLog[j].T >= Len(inLog) - BlockDone + i) =>
            \A e \in buffer[0][i] : \A j \in BlockFrames : e[1] # frameLog[j].seq

(***************************************************************************)
(* C20  A dropped snapshot update is followed by a successful publish of a  *)
(* later frame, whenever the audio thread keeps processing hops and the     *)
(* reader releases the lock after each read.  (A reader that is back in     *)
(* the lock at every try-lock keeps the snapshot stale.)                    *)
(***************************************************************************)
C20_DroppedThenPublished == Dropped ~> Published

\* with a reader that starts no read between a dropped update and the next
\* hop's try-lock, a dropped update is followed by a successful publish
C20_PacedReaderSeesPublish == (uiPaced /\ Dropped) ~> Published

\* an update has been dropped under a paced reader, the reader has released
\* the lock and the next hop is at its try-lock
C20_Witness ==
  /\ uiPaced
  /\ curDropped
  /\ audioPc = "publish"
  /\ visualizationLock = "none"
  /\ uiSnap.f2 >= 1
  /\ visF2 # frameSeq

(***************************************************************************)
(* The arithmetic of one frame, SpectralProcessor::processBlock and        *)
(* EnvelopeExtractor::process, on classes of float values.  A sample is    *)
(* "zero", "tiny" (below the 1e-9 guard of the logarithm), "normal" (its   *)
(* logarithm lies within -20..20 after windowing), "large" (above e^20,    *)
(* its square still a float) or "huge" (finite, its square is not a        *)
(* float); "inf" and "nan" are the two non-finite results.  The frames are *)
(* impulses, one non-zero sample: every bin of the transform of an impulse *)
(* has the magnitude of that sample, so the classes are exact.             *)
(***************************************************************************)
SampleClasses == {"zero", "tiny", "normal", "large", "huge"}

NonFinite == {"inf", "nan"}

ImpulseFrames ==
  {[i \in 1..fftSize |-> "zero"]} \cup
  {[i \in 1..fftSize |-> IF i = p THEN c ELSE "zero"] :
     p \in 1..fftSize, c \in SampleClasses \ {"zero"}}

\* the warp maps of the frame: the identity and the map that reads every
\* envelope half way between two bins
FrameWarpMaps ==
  {[i \in 0..(numBins - 1) |-> Float(i)], [i \in 0..(numBins - 1) |-> Frac(i, 2)]}

\* the hann table is zero at both ends and positive inside
WindowIsZero(i) == i = 1 \/ i = fftSize

\* window->multiplyWithWindowingTable: 0 * x is 0 for a finite x and NaN
\* for the others
MultiplyWithWindowingTable(data) ==
  [i \in DOMAIN data |->
     IF data[i] = "nan" THEN "nan"
     ELSE IF WindowIsZero(i) THEN (IF data[i] = "inf" THEN "nan" ELSE "zero")
     ELSE data[i]]

ClassRank(c) ==
  CASE c = "zero" -> 0 [] c = "tiny" -> 1 [] c = "normal" -> 2
    [] c = "large" -> 3 [] c = "huge" -> 4 [] c = "inf" -> 5 [] c = "nan" -> 6

\* fft->performRealOnlyForwardTransform on an impulse: every bin has real
\* and imaginary parts of the size of the one non-zero sample
ForwardTransform(data) ==
  LET top == CHOOSE c \in {data[i] : i \in DOMAIN data} :
               \A i \in DOMAIN data : ClassRank(data[i]) <= ClassRank(c)
  IN  [b \in 1..numBins |-> IF top = "inf" THEN "nan" ELSE top]

\* std::sqrt(real * real + imag * imag): the squares of a huge bin are not
\* floats, their sum is +Inf
MagnitudeOf(bin) == IF bin = "huge" THEN "inf" ELSE bin

\* std::log(std::max(mag, 1e-9f)): std::max(a, b) is a unless a < b.
\* log(1e-9) = -20.72 is "below", the logarithm of a large value "above"
LogMagnitudeOf(mag) ==
  CASE mag \in {"zero", "tiny"} -> "below"
    [] mag = "normal" -> "within"
    [] mag \in {"large", "huge"} -> "above"
    [] mag = "inf" -> "inf"
    [] mag = "nan" -> "nan"

\* inverse transform, liftering and forward transform of a flat log
\* spectrum: the cepstrum of a flat finite spectrum is its first
\* coefficient alone, which the lifter keeps, so the smoothed spectrum is
\* the flat one; sums and differences of +Inf are +Inf or NaN (outcome)
SmoothedLog(logs, outcome) ==
  [b \in DOMAIN logs |-> IF logs[b] \in NonFinite THEN outcome ELSE logs[b]]

SmoothingOutcomes(logs) ==
  IF \E b \in DOMAIN logs : logs[b] = "nan" THEN {"nan"}
  ELSE IF \E b \in DOMAIN logs : logs[b] = "inf" THEN NonFinite
  ELSE {"within"}

\* std::exp(logEnv), no clamp before it: the envelope is under e^-20, in
\* e^-20..e^20, over e^20, +Inf or NaN
ExpOf(logEnv) ==
  CASE logEnv = "below" -> "underFloor"
    [] logEnv = "within" -> "inRange"
    [] logEnv = "above" -> "overCeiling"
    [] logEnv = "inf" -> "inf"
    [] logEnv = "nan" -> "nan"

ExtractEnvelope(magnitudeSpectrum, outcome) ==
  LET logs == [b \in DOMAIN magnitudeSpectrum |->
                 LogMagnitudeOf(magnitudeSpectrum[b])]
      smooth == SmoothedLog(logs, outcome)
  IN  [b \in DOMAIN smooth |-> ExpOf(smooth[b])]

EnvelopeRank(c) ==
  CASE c = "underFloor" -> 0 [] c = "inRange" -> 1 [] c = "overCeiling" -> 2
    [] c = "inf" -> 3 [] c = "nan" -> 4

\* FormantWarper::process: val0 + frac * (val1 - val0)
Interpolate(val0, val1, fracIsZero) ==
  IF val0 = "nan" \/ val1 = "nan" THEN "nan"
  ELSE IF val0 = "inf" THEN "nan"        \* Inf - Inf, or Inf + (-Inf)
  ELSE IF val1 = "inf" THEN (IF fracIsZero THEN "nan" ELSE "inf")
  ELSE IF fracIsZero \/ EnvelopeRank(val1) <= EnvelopeRank(val0) THEN val0
  ELSE val1

WarpedClass(map, envelope) ==
  [b \in DOMAIN envelope |->
     LET idx0 == ProcessIdx0(map, b - 1)
         idx1 == ProcessIdx1(map, b - 1, Len(envelope))
     IN  Interpolate(envelope[idx0 + 1], envelope[idx1 + 1],
                     map[b - 1] = Float(idx0))]

\* std::max(x, 1e-7f) and std::max(x, 1e-9f): a NaN first argument is
\* returned as it is
GuardedMax(c) == IF c \in NonFinite THEN c ELSE "finite"

\* juce::jlimit(0.0f, maxGainLinear, warpedVal / originalEnv): the
\* comparisons of jlimit are false for NaN, which it returns
ScaleOf(warpedVal, originalEnv) ==
  IF warpedVal = "nan" \/ originalEnv = "nan" THEN "nan"
  ELSE IF warpedVal = "inf" /\ originalEnv = "inf" THEN "nan"
  ELSE "finite"

\* fftBuffer *= scale, the inverse transform, normFactor and the window
SynthesisClass(bins, scales) ==
  IF \E b \in DOMAIN bins : scales[b] = "nan" \/ bins[b] = "nan"
  THEN [i \in 1..fftSize |-> "nan"]
  ELSE [i \in 1..fftSize |-> "finite"]

\* processBlock on the frame of sample classes
ProcessBlockClasses ==
  /\ sampleClass # << >>
  /\ outputClass = << >>
  /\ LET data == MultiplyWithWindowingTable(sampleClass)
         bins == ForwardTransform(data)
         magnitudeSpectrum == [b \in 1..numBins |-> MagnitudeOf(bins[b])]
         logs == [b \in 1..numBins |-> LogMagnitudeOf(magnitudeSpectrum[b])]
     IN  \E outcome \in SmoothingOutcomes(logs) :
           LET extractedEnvelope == ExtractEnvelope(magnitudeSpectrum, outcome)
               warped == WarpedClass(warpMap, extractedEnvelope)
               scales == [b \in 1..numBins |->
                            ScaleOf(GuardedMax(warped[b]),
                                    GuardedMax(extractedEnvelope[b]))]
           IN  /\ envelopeClass' = extractedEnvelope
               /\ outputClass' = SynthesisClass(bins, scales)
  /\ UNCHANGED << raceVars, rotVars, detVars, hostVars, sampleClass, warpMap, warpNumBins, warpPoints,
                  shiftFactor, directNumBins, directMap,
                  currentSampleRate, prepared, ringVars, targetFormantsHz, visVars,
                  visualizationLock, audioPc, blockLeft, frame, curDropped, uiPc,
                  uiSnap, histVars, total, frameSeq, fault, allocCount, lastArg >>

\* the next frame and the warp map of its hop
LoadFrame ==
  /\ sampleClass = << >> \/ outputClass # << >>
  /\ \E f \in ImpulseFrames, map \in FrameWarpMaps :
       /\ sampleClass' = f
       /\ warpMap' = map
  /\ envelopeClass' = << >>
  /\ outputClass' = << >>
  /\ UNCHANGED << raceVars, rotVars, detVars, hostVars, warpNumBins, warpPoints,
                  shiftFactor, directNumBins, directMap,
                  currentSampleRate, prepared, ringVars, targetFormantsHz, visVars,
                  visualizationLock, audioPc, blockLeft, frame, curDropped, uiPc,
                  uiSnap, histVars, total, frameSeq, fault, allocCount, lastArg >>

InitClasses ==
  /\ Constructed
  /\ uiPaced = FALSE
  /\ currentSampleRate = 44100
  /\ prepared = TRUE
  /\ detEnvelope = << >>
  /\ detSampleRate = 0
  /\ sampleClass = << >>

NextClasses == ProcessBlockClasses \/ LoadFrame

SpecClasses == InitClasses /\ [][NextClasses]_vars

(***************************************************************************)
(* C21  No output sample of a frame of finite input samples is NaN or      *)
(*      infinite.                                                          *)
(***************************************************************************)
C21_OutputFinite ==
  (sampleClass # << >> /\ outputClass # << >>) =>
    \A i \in DOMAIN outputClass : outputClass[i] \notin NonFinite

(***************************************************************************)
(* C22  Counting the input samples since the last reset or prepare, a      *)
(*      frame is analysed exactly once after each sample whose count is a  *)
(*      positive multiple of hopSize and at no other time, however the     *)
(*      samples are split into blocks; between samples the hop counter is  *)
(*      the count modulo hopSize, in 0..hopSize-1.                         *)
(***************************************************************************)
C22_FrameEveryHop ==
  /\ hopCounter = Len(inLog) % hopSize
  /\ hopCounter \in 0..(hopSize - 1)
  /\ Len(frameLog) = Len(inLog) \div hopSize
  /\ \A j \in DOMAIN frameLog : frameLog[j].T = j * hopSize

\* a frame triggered by a sample inside a block of three, after a reset
\* that followed earlier input, with a later sample that triggered none
C22_Witness ==
  /\ total > Len(inLog)
  /\ Len(blockInput[0]) = 3
  /\ BlockDone = 3
  /\ Len(frameLog) >= 2
  /\ Len(inLog) % hopSize = 1
  /\ BlockFrames # {}

(***************************************************************************)
(* C23  At every frame trigger the frame is the latest fftSize input       *)
(*      samples, oldest first: after T samples since the reset, frame[k]   *)
(*      is input sample T - fftSize + k, and zero where that index is      *)
(*      negative.                                                          *)
(***************************************************************************)
C23_FrameIsLatestInput ==
  \A j \in DOMAIN frameLog : \A k \in 0..(fftSize - 1) :
    LET idx == frameLog[j].T - fftSize + k
    IN  frameLog[j].data[k + 1] = IF idx < 0 THEN 0 ELSE inLog[idx + 1]

\* a frame that still holds zeros of the reset ring, and a later frame made
\* of input samples alone, after a reset that followed earlier input
C23_Witness ==
  /\ total > Len(inLog)
  /\ Len(frameLog) >= fftSize \div hopSize
  /\ frameLog[1].data[1] = 0
  /\ \A k \in 1..fftSize : frameLog[Len(frameLog)].data[k] # 0

(***************************************************************************)
(* C24  In every frame, for any stored targets and any sample rate, the    *)
(*      formant nodes of the warp have strictly increasing dst values:     *)
(*      0 < dst_1 < ... < dst_numFormants <= numBins - 2, each dst within  *)
(*      [previous dst + 1, numBins - 2].                                   *)
(***************************************************************************)
C24_NodesIncreasingInRange ==
  warpPoints # << >> =>
    \A i \in 1..numFormants :
      LET dst == warpPoints[i + 1].dstBin
          lastDst == warpPoints[i].dstBin
      IN  /\ ~FLess(dst, FAdd(lastDst, Float(1)))
          /\ ~FLess(Float(warpNumBins - 2), dst)

(***************************************************************************)
(* The earlier implementation of process(), which rotates the input FIFO   *)
(* and the accumulator by one slot per sample, run side by side with the   *)
(* ring-buffer implementation on the same input.                           *)
(***************************************************************************)

\* a shift that rotates towards the back and puts the new value in front
ShiftInFront(buf, x) ==
  [p \in Slots |-> IF p = 0 THEN x ELSE buf[p - 1]]

\* std::rotate(begin, begin + 1, end); back() = x
ShiftIn(buf, x) ==
  [p \in Slots |-> IF p = fftSize - 1 THEN x ELSE buf[p + 1]]

\* one iteration of the sample loop of the rotating implementation, with the
\* overlap-add of the frame it triggers
RotatingSample ==
  /\ audioPc = "loop"
  /\ blockLeft > 0
  /\ LET i       == Len(blockInput[0]) - blockLeft + 1
         x       == InputSample(blockInput, i)
         fifo2   == ShiftIn(rotFifo, x)
         acc2    == ShiftIn(rotAccumulator, {})
         hop2    == rotHopCounter + 1
     IN  /\ rotFifo' = fifo2
         /\ rotOutLog' = Append(rotOutLog, rotAccumulator[0])
         /\ IF hop2 >= hopSize
            THEN /\ rotHopCounter' = 0
                 /\ rotFrameLog' = Append(rotFrameLog,
                                     [T |-> Len(rotOutLog) + 1, seq |-> frameSeq + 1,
                                      data |-> [k \in 1..fftSize |-> fifo2[k - 1]]])
                 /\ rotAccumulator' =
                      [p \in Slots |-> acc2[p] \cup {SynthSample(frameSeq + 1, p)}]
            ELSE /\ rotHopCounter' = hop2
                 /\ rotAccumulator' = acc2
                 /\ UNCHANGED rotFrameLog

\* reset() of the rotating implementation
RotatingReset ==
  /\ rotFifo' = ZeroRing
  /\ rotAccumulator' = ZeroAccumulator
  /\ rotHopCounter' = 0
  /\ rotOutLog' = << >>
  /\ rotFrameLog' = << >>

BothSample == RingSample /\ RotatingSample

BothReset == RingReset /\ RotatingReset

NextBoth ==
  \/ BothReset
  \/ \E n \in 0..MaxBlock : ProcessBegin(n, 1)
  \/ BothSample
  \/ ProcessEnd
  \/ AudioAnalysis
  \/ AudioTryEnter
  \/ AudioPublish
  \/ AudioExit
  \/ AudioSynthesis

SpecBoth == InitChannels /\ [][NextBoth]_vars

(***************************************************************************)
(* C25  The ring-buffer process() behaves as the rotating-FIFO             *)
(*      implementation: the same frames at the same sample counts and the  *)
(*      same output sequence, for every input, block split and reset in    *)
(*      between.                                                           *)
(***************************************************************************)
C25_RingAsRotatingFifo ==
  /\ rotOutLog = outLog
  /\ rotFrameLog = frameLog
  /\ rotHopCounter = hopCounter

\* both have emitted synthesized samples of frames triggered after a reset
\* that followed earlier input, the ring positions being off slot 0
C25_Witness ==
  /\ total > Len(inLog)
  /\ Len(frameLog) >= 2
  /\ inputWritePos # 0
  /\ rotOutLog # << >>
  /\ rotOutLog[Len(rotOutLog)] # {}

(***************************************************************************)
(* The window of the reference buffer that estimateFormantsFromBuffer      *)
(* analyses, for buffers of every length up to MaxSourceLength.            *)
(***************************************************************************)
MaxSourceLength == 2 * DetectFftSize + 1

\* the envelopes of the analysed windows: flat, and one peak at bin 3
WindowEnvelopes ==
  {[i \in 0..(DetectBins - 1) |-> 0],
   [i \in 0..(DetectBins - 1) |-> IF i = 3 THEN 1 ELSE 0]}

WindowCall ==
  \E totalSamples \in 1..MaxSourceLength, sourceSampleRate \in DetectSampleRates,
     envelope \in WindowEnvelopes :
    EstimateFormantsFromBuffer(totalSamples, 1, sourceSampleRate, envelope)

NextWindow == WindowCall

SpecWindow == InitEstimate /\ [][NextWindow]_vars

\* the length of the buffer of the last call, from what it read
SourceLengths ==
  {L \in 1..MaxSourceLength : estFrame = EstimateFrame(L) /\ estRead = EstimateReads(L)}

(***************************************************************************)
(* C26  For a reference buffer of L >= 1 samples the estimator analyses    *)
(*      one window of fftSize samples centred at the midpoint: samples     *)
(*      L/2 - fftSize/2 .. L/2 + fftSize/2 - 1 when L >= fftSize, the      *)
(*      whole buffer followed by zeros when L < fftSize; it reads only     *)
(*      indices in 0..L-1 and writes at most fftSize frame samples.        *)
(***************************************************************************)
C26_CentredWindow ==
  estFrame # << >> =>
    /\ SourceLengths # {}
    /\ \A L \in SourceLengths :
         LET N == DetectFftSize
             mid == L \div 2
         IN  /\ estRead \subseteq 0..(L - 1)
             /\ DOMAIN estFrame = 0..(N - 1)
             /\ Cardinality(estRead) <= N
             /\ L >= N =>
                  /\ estRead = (mid - N \div 2)..(mid + N \div 2 - 1)
                  /\ \A k \in 0..(N - 1) : estFrame[k] = mid - N \div 2 + k
             /\ L < N =>
                  /\ estRead = 0..(L - 1)
                  /\ \A k \in 0..(N - 1) : estFrame[k] = IF k < L THEN k ELSE 0 - 1

\* a buffer longer than the frame, of odd length, and so not read from its
\* first sample nor up to its last
C26_Witness ==
  /\ estFrame # << >>
  /\ estFrame[0] > 0
  /\ \E L \in SourceLengths : L % 2 = 1 /\ (L - 1) \notin estRead

(***************************************************************************)
(* C27  The envelope extractor clamps the log envelope to -20..20 before   *)
(*      exponentiating: every envelope value lies in e^-20 .. e^20.        *)
(***************************************************************************)
C27_EnvelopeWithinClamp ==
  \A b \in DOMAIN envelopeClass : envelopeClass[b] = "inRange"

(***************************************************************************)
(* The single-factor warp: calculateWarpMapLegacy, and the direct linear   *)
(* scaling calculateWarpMap(int, float) that it replaced, called with the  *)
(* same arguments.  Exact fractions stand for the floats.                  *)
(***************************************************************************)
MaxLegacyBins == 6

\* the numbers of bins of the calls, with one that has the bin 50 that
\* WarpingTest.cpp looks at
LegacyBinCounts == 1..MaxLegacyBins \cup {60}

\* shift factors below, at and above the 0.1 floor, below, at and above 1
ShiftFactors ==
  {Frac(0 - 1, 1), Float(0), Frac(1, 20), Frac(1, 10), Frac(1, 3), Frac(1, 2),
   Frac(9, 10), Float(1), Frac(3, 2), Float(2), Float(3), Float(100)}

\* std::max(0.1f, shiftFactor)
FlooredFactor(f) == FMax(Frac(1, 10), f)

\* control points whose second src is the Nyquist bin itself
LegacyPointsUnscaled(n, f) ==
  << WarpingPoint(Float(0), Float(0)), WarpingPoint(Float(n - 1), Float(n - 1)) >>

\* lines 121-127: {0, 0} and {nyquist * (1 / max(0.1, f)), nyquist}
LegacyPoints(n, f) ==
  << WarpingPoint(Float(0), Float(0)),
     WarpingPoint(FMul(Float(n - 1), FDiv(Float(1), FlooredFactor(f))), Float(n - 1)) >>

\* the direct linear scaling: warpMap[i] = min(i * invFactor, numBins - 1)
DirectWarpMap(n, f) ==
  LET invFactor == FDiv(Float(1), FlooredFactor(f))
  IN  [i \in 0..(n - 1) |-> FMin(FMul(Float(i), invFactor), Float(n - 1))]

\* calculateWarpMap(numBins, shiftFactor) of the earlier warper
DirectCall ==
  \E n \in LegacyBinCounts, f \in ShiftFactors :
    /\ shiftFactor' = f
    /\ directNumBins' = n
    /\ directMap' = DirectWarpMap(n, f)
    /\ UNCHANGED << raceVars, rotVars, warpVars, detVars, hostVars, sampleClass, envelopeClass,
                    outputClass, currentSampleRate, prepared, ringVars,
                    targetFormantsHz, visVars, visualizationLock, audioPc, blockLeft,
                    frame, curDropped, uiPc, uiSnap, histVars, total, frameSeq, fault,
                    allocCount, lastArg >>

\* calculateWarpMapLegacy with the arguments of the last direct call
CalculateWarpMapLegacy ==
  /\ directNumBins > 0
  /\ CalculateWarpMap(directNumBins, LegacyPoints(directNumBins, shiftFactor))

NextLegacy == DirectCall \/ CalculateWarpMapLegacy

SpecLegacy == Init /\ [][NextLegacy]_vars

\* both implementations have been called with the same arguments
SameArguments ==
  /\ directNumBins > 0
  /\ warpNumBins = directNumBins
  /\ warpPoints = LegacyPoints(directNumBins, shiftFactor)

(***************************************************************************)
(* C28  For any shift factor f and number of bins, the single-factor warp  *)
(*      gives WarpMap[i] = min(i / max(0.1, f), numBins - 1): the identity *)
(*      for f = 1, WarpMap[50] = 25 for f = 2; and                         *)
(*      calculateWarpMapLegacy yields the same map as the direct linear    *)
(*      scaling.                                                           *)
(***************************************************************************)
C28_LegacyAsDirectScaling ==
  SameArguments =>
    /\ warpMap = directMap
    /\ \A i \in 0..(warpNumBins - 1) :
         warpMap[i] = FMin(FDiv(Float(i), FlooredFactor(shiftFactor)),
                           Float(warpNumBins - 1))
    /\ shiftFactor = Float(1) => \A i \in 0..(warpNumBins - 1) : warpMap[i] = Float(i)
    /\ (shiftFactor = Float(2) /\ warpNumBins > 50) => warpMap[50] = Float(25)

\* the stretch of the test, factor 2, on a map that has bin 50: both maps
\* computed, bin 50 reads 25
C28_Witness ==
  /\ SameArguments
  /\ shiftFactor = Float(2)
  /\ warpNumBins > 50
  /\ warpMap[50] = Float(25)
  /\ directMap[50] = Float(25)

\* the frame a processor analyses after T input samples since its reset, as
\* a function of those samples alone
FrameOfInputs(inputs, T) ==
  [k \in 1..fftSize |->
     IF T - fftSize + k - 1 < 0 THEN 0 ELSE inputs[T - fftSize + k]]

(***************************************************************************)
(* C29  reset() discards all buffered audio.  The outputs after a reset    *)
(*      are a function of the input after it: output j is made of the      *)
(*      samples j - T of the frames triggered at the counts T <= j since   *)
(*      the reset, each frame made of the input since the reset and zeros, *)
(*      so two runs that differ only before the reset give the same        *)
(*      outputs after it; the first hopSize outputs after a reset are      *)
(*      zero.                                                              *)
(***************************************************************************)
C29_ResetDiscardsAudio ==
  /\ \A f \in DOMAIN frameLog :
       frameLog[f].data = FrameOfInputs(inLog, frameLog[f].T)
  /\ \A j \in 1..Len(outLog) :
       /\ outLog[j] =
            {SynthSample(frameLog[f].seq, j - 1 - frameLog[f].T) :
               f \in {g \in DOMAIN frameLog :
                        /\ frameLog[g].T <= j - 1
                        /\ j - 1 - frameLog[g].T < fftSize}}
       /\ j <= hopSize => outLog[j] = {}

\* a reset while synthesized samples of earlier frames were waiting in the
\* accumulator, then silence for hopSize outputs and a synthesized output
C29_Witness ==
  /\ total - Len(inLog) >= hopSize
  /\ Len(outLog) > hopSize
  /\ outLog[hopSize] = {}
  /\ outLog[Len(outLog)] # {}

(***************************************************************************)
(* setTargetFormantsHz step by step, called by the audio thread at the     *)
(* start of a block and by the UI thread from                              *)
(* analyzeSourceFileAndApplyFormants, and the reads of the targets by the  *)
(* node construction of a frame.  Nothing orders the steps of the two      *)
(* threads.                                                                *)
(***************************************************************************)

\* what the UI thread hands over: estimates in Hz, which repeat where the
\* detection repeated a bin
UiTargetVectors == ReferenceEstimates \cup {[i \in 1..numFormants |-> 300]}

\* the stored vectors that are the complete result of one call
CompleteResults ==
  {Monotonize(v) : v \in UiTargetVectors \cup StreamTargetVectors}

raceRest ==
  << warpVars, detVars, hostVars, auxVars, rotVars, currentSampleRate, prepared,
     ringVars, visVars, visualizationLock, audioPc, blockLeft, frame, curDropped,
     uiPc, uiSnap, histVars, total, frameSeq, fault, allocCount, lastArg >>

\* targetFormantsHz = targetHz, the element of index i
CopyElement(stored, targetHz, i) == [stored EXCEPT ![i] = targetHz[i]]

\* targetFormantsHz[i] = std::max(minHz, targetFormantsHz[i]), minHz from the
\* stored element before it
RaiseElement(stored, i) ==
  [stored EXCEPT
     ![i] = Max(MinHz(i, IF i = 1 THEN 0 ELSE stored[i - 1]), stored[i])]

\* PluginProcessor.cpp 137: the UI thread enters setTargetFormantsHz
UiSetBegin ==
  /\ uiSetPc = 0
  /\ \E v \in UiTargetVectors : uiSetArg' = v
  /\ uiSetPc' = 1
  /\ UNCHANGED << audioSetPc, audioSetArg, nodeTargets, targetFormantsHz, raceRest >>

UiSetStep ==
  /\ uiSetPc > 0
  /\ targetFormantsHz' =
       IF uiSetPc <= numFormants
       THEN CopyElement(targetFormantsHz, uiSetArg, uiSetPc)
       ELSE RaiseElement(targetFormantsHz, uiSetPc - numFormants)
  /\ uiSetPc' = IF uiSetPc = 2 * numFormants THEN 0 ELSE uiSetPc + 1
  /\ UNCHANGED << uiSetArg, audioSetPc, audioSetArg, nodeTargets, raceRest >>

\* PluginProcessor.cpp 253: the audio thread enters setTargetFormantsHz
AudioSetBegin ==
  /\ audioSetPc = 0
  /\ \E v \in StreamTargetVectors : audioSetArg' = v
  /\ audioSetPc' = 1
  /\ nodeTargets' = << >>
  /\ UNCHANGED << uiSetPc, uiSetArg, targetFormantsHz, raceRest >>

AudioSetStep ==
  /\ audioSetPc \in 1..(2 * numFormants)
  /\ targetFormantsHz' =
       IF audioSetPc <= numFormants
       THEN CopyElement(targetFormantsHz, audioSetArg, audioSetPc)
       ELSE RaiseElement(targetFormantsHz, audioSetPc - numFormants)
  /\ audioSetPc' = audioSetPc + 1
  /\ UNCHANGED << uiSetPc, uiSetArg, audioSetArg, nodeTargets, raceRest >>

\* SpectralProcessor.cpp 371: the node of formant i reads targetFormantsHz[i]
NodeRead ==
  /\ audioSetPc > 2 * numFormants
  /\ nodeTargets' = Append(nodeTargets, targetFormantsHz[audioSetPc - 2 * numFormants])
  /\ audioSetPc' = IF audioSetPc = 3 * numFormants THEN 0 ELSE audioSetPc + 1
  /\ UNCHANGED << uiSetPc, uiSetArg, audioSetArg, targetFormantsHz, raceRest >>

NextRace == UiSetBegin \/ UiSetStep \/ AudioSetBegin \/ AudioSetStep \/ NodeRead

SpecRace == Init /\ [][NextRace]_vars

(***************************************************************************)
(* C30  The node construction of every frame reads a stored target vector  *)
(*      that is the complete result of one setTargetFormantsHz call and    *)
(*      satisfies t[0] >= 200, t[i] >= t[i-1] + 20: never one that is      *)
(*      copied but not yet raised, or partly overwritten, under any        *)
(*      interleaving of the audio thread with the UI thread's call.        *)
(***************************************************************************)
C30_NodesReadCompleteTargets ==
  Len(nodeTargets) = numFormants =>
    /\ nodeTargets \in CompleteResults
    /\ nodeTargets[1] >= MinFormantHz
    /\ \A i \in 2..numFormants : nodeTargets[i] >= nodeTargets[i - 1] + MinSeparationHz

=============================================================================
